---- MODULE Spec2Model ----
(***************************************************************************)
(* A model of the easy-fs core: block cache, bitmap allocator, on-disk     *)
(* inode block map, filesystem manager and inode facade.                   *)
(*                                                                         *)
(* Blocks are sequences of bytes.  Every on-disk structure is read and     *)
(* written through its byte encoding (little-endian u32, u64 bitmap words  *)
(* as 8 bytes), so that a block freed as data and reused as an index block *)
(* is the same bytes seen through another type, as in the code.            *)
(*                                                                         *)
(* The geometry is scaled: BLOCK_SZ is 8 * BlockDWords bytes instead of    *)
(* 512, an inode has INODE_DIRECT_COUNT direct slots instead of 28 and a   *)
(* name NAME_LENGTH_LIMIT bytes instead of 27.  All derived quantities     *)
(* (BLOCK_SZ / 4 index slots per block, BLOCK_SZ * 8 bits per bitmap       *)
(* block, the inode record size) are derived as the code derives them.     *)
(*                                                                         *)
(* A function of the code is an operator on the machine m = [queue, dev,   *)
(* fatal]; where the code uses the result of a call more than once, the    *)
(* rest of the function is a second operator that takes the result as a    *)
(* parameter.  A panic sets m.fatal, and every later step leaves m alone.  *)
(***************************************************************************)
EXTENDS Integers, Sequences, FiniteSets, TLC

VARIABLES
    queue,      \* BlockCacheManager.queue: sequence of resident BlockCache
    dev,        \* the block device: block id -> bytes
    fatal,      \* "none", or the panic that ended the program
    efs,        \* the EasyFileSystem manager (NoFs before create)
    handles,    \* the Inode handles for files the caller holds
    created,    \* history: the successful creates, in order
    last,       \* history: the most recent public call and its result
    prev,       \* history: the call before it
    calls,      \* history: how many updating calls, queries and frees were made
    bitmap,     \* the Bitmap under test (bitmap specification)
    held,       \* history: bits returned by alloc and not yet deallocated
    written,    \* history: block id -> what the device held at first, then the
                \* latest image stored to the block through the cache
    shared,     \* the handles (Arc) to cache entries that callers hold
    images,     \* history: block id -> how many times the block was loaded
    threads,    \* the threads that call the filesystem (thread specification)
    flushed,    \* history: the blocks written to the device by the last step
    peak        \* history: the most handles to cache entries that the last step
                \* held at once

vars == <<queue, dev, fatal, efs, handles, created, last, prev, calls, bitmap, held,
          written, shared, images, threads, flushed, peak>>

----------------------------------------------------------------------------
(* Geometry *)

\* number of u64 words of a block (64 in the code: BitmapBlock = [u64; 64])
BlockDWords == 5

BLOCK_SZ == 8 * BlockDWords

BLOCK_BITS == BLOCK_SZ * 8

EFS_MAGIC == 998244353

INODE_DIRECT_COUNT == 1

NAME_LENGTH_LIMIT == 3

INODE_INDIRECT1_COUNT == BLOCK_SZ \div 4

INODE_INDIRECT2_COUNT == INODE_INDIRECT1_COUNT * INODE_INDIRECT1_COUNT

DIRECT_BOUND == INODE_DIRECT_COUNT

INDIRECT1_BOUND == DIRECT_BOUND + INODE_INDIRECT1_COUNT

INDIRECT2_BOUND == INDIRECT1_BOUND + INODE_INDIRECT2_COUNT

\* size_of::<DiskInode>(): size, direct[], indirect1, indirect2, type_ (repr(C))
DiskInodeSize == 4 * (INODE_DIRECT_COUNT + 4)

\* size_of::<DirEntry>(): name[NAME_LENGTH_LIMIT + 1], inode_number
DIRENT_SZ == (NAME_LENGTH_LIMIT + 1) + 4

BLOCK_CACHE_SIZE == 16

----------------------------------------------------------------------------
(* Bytes and integers *)

Min(a, b) == IF a < b THEN a ELSE b

Zeros(n) == [i \in 1..n |-> 0]

\* little-endian bytes of a u32
U32Bytes(v) ==
    << v % 256, (v \div 256) % 256, (v \div 65536) % 256, (v \div 16777216) % 256 >>

\* the u32 at byte offset off of buf
GetU32(buf, off) ==
    buf[off + 1] + 256 * buf[off + 2] + 65536 * buf[off + 3] + 16777216 * buf[off + 4]

\* buf with bytes written at byte offset off (copy_from_slice into a window)
Splice(buf, off, bytes) ==
    SubSeq(buf, 1, off) \o bytes \o SubSeq(buf, off + Len(bytes) + 1, Len(buf))

\* u8::trailing_ones
RECURSIVE TrailingOnes(_)
TrailingOnes(byte) == IF byte % 2 = 1 THEN 1 + TrailingOnes(byte \div 2) ELSE 0

Pow2(k) == CASE k = 0 -> 1 [] k = 1 -> 2 [] k = 2 -> 4 [] k = 3 -> 8
             [] k = 4 -> 16 [] k = 5 -> 32 [] k = 6 -> 64 [] k = 7 -> 128

BitOfByte(byte, k) == (byte \div Pow2(k)) % 2

----------------------------------------------------------------------------
(* Block device and block cache (block_cache.rs) *)

Machine ==
    [queue |-> queue, dev |-> dev, fatal |-> fatal, written |-> written,
     flushed |-> {}, peak |-> 0]

Panic(m, why) == IF m.fatal = "none" THEN [m EXCEPT !.fatal = why] ELSE m

Ok(m) == m.fatal = "none"

\* no handle held, no entry locked
NoCtx == [pins |-> {}, locks |-> {}]

\* a handle to block id is held (Arc alive) in the calls made under c
Pin(c, id) == [c EXCEPT !.pins = @ \cup {id}]

\* a handle to block id is held and its mutex is locked
Hold(c, id) == [pins |-> c.pins \cup {id}, locks |-> c.locks \cup {id}]

Resident(q, id) == \E i \in 1..Len(q) : q[i].block_id = id

IndexOf(q, id) == CHOOSE i \in 1..Len(q) : q[i].block_id = id

\* nothing leaves the queue
Drain_leaves_entry(q, idx) == q

Drain(q, idx) == SubSeq(q, 1, idx - 1) \o SubSeq(q, idx + 1, Len(q))

\* the blocks of the entries of q that sync writes to the device
Dirty(q) == {q[i].block_id : i \in {j \in 1..Len(q) : q[j].modified}}

\* BlockCache::sync, on the device
SyncEntry(d, e) == IF e.modified THEN [d EXCEPT ![e.block_id] = e.cache] ELSE d

\* the entry is dropped and not written back
Drop_without_sync(m, idx) == [m EXCEPT !.queue = Drain(m.queue, idx)]

\* self.queue.drain(idx..=idx): the entry is dropped, and Drop syncs it
Drop(m, idx) ==
    [m EXCEPT !.queue = Drain(m.queue, idx), !.dev = SyncEntry(m.dev, m.queue[idx]),
              !.flushed = @ \cup Dirty(<<m.queue[idx]>>)]

\* at capacity the first entry goes, whoever holds it
Evict_takes_first(m, pins) ==
    IF Len(m.queue) # BLOCK_CACHE_SIZE THEN m ELSE Drop(m, 1)

\* the replacement branch: at capacity, the first entry no one else holds goes
Evict(m, pins) ==
    IF Len(m.queue) # BLOCK_CACHE_SIZE THEN m
    ELSE LET free == {i \in 1..Len(m.queue) : m.queue[i].block_id \notin pins}
         IN  IF free = {} THEN Panic(m, "Run out of BlockCache!")
             ELSE Drop(m, CHOOSE i \in free : \A j \in free : i <= j)

\* BlockCache::new and push_back; a block the device does not have cannot be read
BlockCache_new(m, block_id) ==
    IF ~Ok(m) THEN m
    ELSE IF block_id \notin DOMAIN m.dev THEN Panic(m, "read_block out of range")
    ELSE [m EXCEPT !.queue = Append(@, [block_id |-> block_id,
                                        cache |-> m.dev[block_id],
                                        modified |-> FALSE])]

\* the handles that callers hold are not counted
BlockCacheManager_get_block_cache_counts_no_handle(m, block_id, pins) ==
    IF ~Ok(m) \/ Resident(m.queue, block_id) THEN m
    ELSE BlockCache_new(Evict(m, {}), block_id)

\* a hit moves the entry to the tail of the queue (least recently used first)
BlockCacheManager_get_block_cache_hit_to_tail(m, block_id, pins) ==
    IF ~Ok(m) THEN m
    ELSE IF Resident(m.queue, block_id)
         THEN [m EXCEPT !.queue = Append(Drain(@, IndexOf(m.queue, block_id)),
                                         m.queue[IndexOf(m.queue, block_id)])]
    ELSE BlockCache_new(Evict(m, pins), block_id)

BlockCacheManager_get_block_cache(m, block_id, pins) ==
    IF ~Ok(m) \/ Resident(m.queue, block_id) THEN m
    ELSE BlockCache_new(Evict(m, pins), block_id)

\* .lock() on an entry whose spin lock the caller already holds never returns
Lock(m, block_id, c) ==
    IF Ok(m) /\ block_id \in c.locks THEN Panic(m, "spin lock held") ELSE m

\* n handles to cache entries are alive
Counted(m, n) == IF Ok(m) /\ n > m.peak THEN [m EXCEPT !.peak = n] ELSE m

\* no handle is ever dropped: every resident entry counts as held
get_block_cache_keeps_every_handle(m, block_id, c) ==
    Lock(BlockCacheManager_get_block_cache(m, block_id,
                                           {m.queue[i].block_id : i \in 1..Len(m.queue)}),
         block_id, c)

\* get_block_cache(id, device).lock(): the handle, then the entry's spin lock
get_block_cache(m, block_id, c) ==
    Lock(Counted(BlockCacheManager_get_block_cache(m, block_id, c.pins),
                 Cardinality(c.pins \cup {block_id})),
         block_id, c)

\* the buffer of a resident entry
Image(m, block_id) == m.queue[IndexOf(m.queue, block_id)].cache

\* BlockCache::get_mut: the dirty flag is set before the closure runs
get_mut(m, block_id) ==
    IF ~Ok(m) THEN m
    ELSE [m EXCEPT !.queue[IndexOf(m.queue, block_id)].modified = TRUE]

\* a store through the &mut T of a modify closure
Store(m, block_id, off, bytes) ==
    IF ~Ok(m) THEN m
    ELSE [m EXCEPT !.queue[IndexOf(m.queue, block_id)].cache = Splice(@, off, bytes),
                   !.written[block_id] = Splice(Image(m, block_id), off, bytes)]

\* get_block_cache(..).lock().modify(0, f) where f overwrites bytes at off
ModifyBlock(m, block_id, off, bytes, c) ==
    Store(get_mut(get_block_cache(m, block_id, c), block_id), block_id, off, bytes)

RECURSIVE SyncFrom(_, _, _)
SyncFrom(q, d, i) ==
    IF i > Len(q) THEN d ELSE SyncFrom(q, SyncEntry(d, q[i]), i + 1)

\* nothing is synced
block_cache_sync_all_returns_at_once(m) == m

block_cache_sync_all(m) ==
    IF ~Ok(m) THEN m
    ELSE [m EXCEPT !.dev = SyncFrom(m.queue, m.dev, 1),
                   !.queue = [i \in 1..Len(m.queue) |->
                                 [m.queue[i] EXCEPT !.modified = FALSE]],
                   !.flushed = @ \cup Dirty(m.queue)]

----------------------------------------------------------------------------
(* Bitmap allocator (bitmap.rs) *)

\* Option::None of a bit index
NoBit == -1

\* a BitmapBlock word (u64) is all ones
WordFull(img, w) == \A j \in 0..7 : img[8 * w + j + 1] = 255

\* u64::count_ones in the place of trailing_ones
WordTrailingOnes_counts_ones(img, w) ==
    Cardinality({ p \in (0..7) \X (0..7) : BitOfByte(img[8 * w + p[1] + 1], p[2]) = 1 })

\* u64::trailing_ones of word w, on its little-endian bytes
WordTrailingOnes(img, w) ==
    LET j == CHOOSE k \in 0..7 :
                 /\ img[8 * w + k + 1] # 255
                 /\ \A l \in 0..(k - 1) : img[8 * w + l + 1] = 255
    IN  8 * j + TrailingOnes(img[8 * w + j + 1])

\* bit inner_pos of word w
WordBit(img, w, inner_pos) ==
    BitOfByte(img[8 * w + (inner_pos \div 8) + 1], inner_pos % 8)

\* the byte offset and the new byte after word w has 1 << inner_pos or-ed in
SetBitByte(img, w, inner_pos) ==
    [off  |-> 8 * w + (inner_pos \div 8),
     byte |-> img[8 * w + (inner_pos \div 8) + 1] + Pow2(inner_pos % 8)]

\* the byte offset and the new byte after 1 << inner_pos is subtracted from word w
ClearBitByte(img, w, inner_pos) ==
    [off  |-> 8 * w + (inner_pos \div 8),
     byte |-> img[8 * w + (inner_pos \div 8) + 1] - Pow2(inner_pos % 8)]

decomposition(bit) ==
    [block_pos  |-> bit \div BLOCK_BITS,
     bits64_pos |-> (bit % BLOCK_BITS) \div 64,
     inner_pos  |-> (bit % BLOCK_BITS) % 64]

\* .iter().enumerate().find(|bits64| value != u64::MAX): the position of the first
\* word that is not all ones
FirstOpen(img) ==
    LET open == {w \in 0..(BlockDWords - 1) : ~WordFull(img, w)}
    IN  IF open = {} THEN NoBit ELSE CHOOSE w \in open : \A x \in open : w <= x

\* the bit index is returned and the word is left as it was
SetFound_leaves_word(m, id, img, block_id, bits64_pos, inner_pos) ==
    [m |-> m, v |-> block_id * BLOCK_BITS + bits64_pos * 64 + inner_pos]

\* bitmap_block[bits64_pos] |= 1u64 << inner_pos, and the bit index returned
SetFound(m, id, img, block_id, bits64_pos, inner_pos) ==
    [m |-> Store(m, id, SetBitByte(img, bits64_pos, inner_pos).off,
                 <<SetBitByte(img, bits64_pos, inner_pos).byte>>),
     v |-> block_id * BLOCK_BITS + bits64_pos * 64 + inner_pos]

\* the closure of Bitmap::alloc on the bitmap block img, found at word bits64_pos
AllocInWord(m, id, img, block_id, bits64_pos) ==
    IF bits64_pos = NoBit THEN [m |-> m, v |-> NoBit]
    ELSE SetFound(m, id, img, block_id, bits64_pos, WordTrailingOnes(img, bits64_pos))

\* cache.lock().modify(0, |bitmap_block| ...): [m, v]
AllocInBlock(m, id, block_id) ==
    IF ~Ok(m) THEN [m |-> m, v |-> NoBit]
    ELSE AllocInWord(m, id, Image(m, id), block_id, FirstOpen(Image(m, id)))

RECURSIVE AllocLoop(_, _, _, _)

\* if pos.is_some() { return pos; }, else the next block
AllocNext(pos, bm, block_id, c) ==
    IF ~Ok(pos.m) \/ pos.v # NoBit THEN pos
    ELSE AllocLoop(pos.m, bm, block_id + 1, c)

\* for block_id in 0..self.blocks
AllocLoop(m, bm, block_id, c) ==
    IF ~Ok(m) \/ block_id >= bm.blocks THEN [m |-> m, v |-> NoBit]
    ELSE AllocNext(AllocInBlock(get_mut(get_block_cache(m, block_id + bm.start_block_id, c),
                                        block_id + bm.start_block_id),
                                block_id + bm.start_block_id, block_id),
                   bm, block_id, c)

\* Bitmap::alloc: [m, v], v = NoBit for None
Bitmap_alloc(m, bm, c) == AllocLoop(m, bm, 0, c)

\* the closure of Bitmap::dealloc
ClearBit(m, id, d) ==
    IF ~Ok(m) THEN m
    ELSE IF WordBit(Image(m, id), d.bits64_pos, d.inner_pos) = 0
         THEN Panic(m, "assert bit is set")
         ELSE Store(m, id, ClearBitByte(Image(m, id), d.bits64_pos, d.inner_pos).off,
                    <<ClearBitByte(Image(m, id), d.bits64_pos, d.inner_pos).byte>>)

Bitmap_dealloc(m, bm, bit, c) ==
    ClearBit(get_mut(get_block_cache(m, decomposition(bit).block_pos + bm.start_block_id, c),
                     decomposition(bit).block_pos + bm.start_block_id),
             decomposition(bit).block_pos + bm.start_block_id, decomposition(bit))

Bitmap_maximum(bm) == bm.blocks * BLOCK_BITS

----------------------------------------------------------------------------
(* On-disk layout (layout.rs) *)

\* DiskInodeType::File, DiskInodeType::Directory
File == 0

Directory == 1

\* byte offsets of the fields of a DiskInode (repr(C))
OffSize == 0

OffDirect(i) == 4 + 4 * i

OffIndirect1 == 4 + 4 * INODE_DIRECT_COUNT

OffIndirect2 == 8 + 4 * INODE_DIRECT_COUNT

OffType == 12 + 4 * INODE_DIRECT_COUNT

\* a field of the DiskInode behind the reference ino = [block_id, block_offset];
\* its block is resident (the caller holds the handle)
InodeU32(m, ino, off) == GetU32(Image(m, ino.block_id), ino.block_offset + off)

SetInodeU32(m, ino, off, v) == Store(m, ino.block_id, ino.block_offset + off, U32Bytes(v))

DiskInode_size(m, ino) == InodeU32(m, ino, OffSize)

DiskInode_direct(m, ino, i) == InodeU32(m, ino, OffDirect(i))

DiskInode_indirect1(m, ino) == InodeU32(m, ino, OffIndirect1)

DiskInode_indirect2(m, ino) == InodeU32(m, ino, OffIndirect2)

DiskInode_initialize(m, ino, type_) ==
    Store(Store(m, ino.block_id, ino.block_offset, Zeros(4 * (INODE_DIRECT_COUNT + 3))),
          ino.block_id, ino.block_offset + OffType, <<type_>>)

DiskInode_is_dir(m, ino) ==
    Image(m, ino.block_id)[ino.block_offset + OffType + 1] = Directory

_data_blocks(size) == (size + BLOCK_SZ - 1) \div BLOCK_SZ

DiskInode_data_blocks(m, ino) == _data_blocks(DiskInode_size(m, ino))

total_blocks(size) ==
    LET data_blocks == _data_blocks(size)
        t1 == IF data_blocks > INODE_DIRECT_COUNT THEN data_blocks + 1 ELSE data_blocks
    IN  IF data_blocks > INDIRECT1_BOUND
        THEN t1 + 1 + (data_blocks - INDIRECT1_BOUND + INODE_INDIRECT1_COUNT - 1)
                          \div INODE_INDIRECT1_COUNT
        ELSE t1

\* [m, v]; the assertion new_size >= self.size
blocks_num_needed(m, ino, new_size) ==
    IF ~Ok(m) THEN [m |-> m, v |-> 0]
    ELSE IF new_size < DiskInode_size(m, ino)
         THEN [m |-> Panic(m, "assert new_size >= size"), v |-> 0]
         ELSE [m |-> m, v |-> total_blocks(new_size) - total_blocks(DiskInode_size(m, ino))]

\* |indirect_block: &IndirectBlock| indirect_block[idx], on the locked block id: [m, v]
ReadSlot(m, id, idx) ==
    IF ~Ok(m) THEN [m |-> m, v |-> 0]
    ELSE IF idx >= INODE_INDIRECT1_COUNT
         THEN [m |-> Panic(m, "index out of bounds"), v |-> 0]
         ELSE [m |-> m, v |-> GetU32(Image(m, id), 4 * idx)]

\* get_block_cache(id).lock().read(0, |b| b[idx]): [m, v]
ReadIndirect(m, id, idx, c) == ReadSlot(get_block_cache(m, id, c), id, idx)

\* the second read of the double-indirect branch, through the block the first found
ReadIndirectOf(indirect1, idx, c) == ReadIndirect(indirect1.m, indirect1.v, idx, c)

\* [m, v]
get_block_id(m, ino, inner_id, c) ==
    IF ~Ok(m) THEN [m |-> m, v |-> 0]
    ELSE IF inner_id < INODE_DIRECT_COUNT
         THEN [m |-> m, v |-> DiskInode_direct(m, ino, inner_id)]
    ELSE IF inner_id < INDIRECT1_BOUND
         THEN ReadIndirect(m, DiskInode_indirect1(m, ino), inner_id - INODE_DIRECT_COUNT, c)
    ELSE ReadIndirectOf(ReadIndirect(m, DiskInode_indirect2(m, ino),
                                     (inner_id - INDIRECT1_BOUND) \div INODE_INDIRECT1_COUNT, c),
                        (inner_id - INDIRECT1_BOUND) % INODE_INDIRECT1_COUNT, c)

\* the state of increase_size: the machine, the iterator over new_blocks and
\* current_blocks
Loop(m, nb, cur) == [m |-> m, nb |-> nb, cur |-> cur]

\* the element stays at the head of the list
StoreNext_keeps_element(s, id, off) ==
    IF ~Ok(s.m) THEN s
    ELSE IF s.nb = << >> THEN [s EXCEPT !.m = Panic(s.m, "unwrap on None")]
    ELSE [s EXCEPT !.m = Store(s.m, id, off, U32Bytes(Head(s.nb)))]

\* new_blocks.next().unwrap(), stored as a u32 at byte offset off of block id
StoreNext(s, id, off) ==
    IF ~Ok(s.m) THEN s
    ELSE IF s.nb = << >> THEN [s EXCEPT !.m = Panic(s.m, "unwrap on None")]
    ELSE [s EXCEPT !.m = Store(s.m, id, off, U32Bytes(Head(s.nb))), !.nb = Tail(s.nb)]

\* while current_blocks < lim { self.direct[current_blocks] = next; current_blocks += 1 }
RECURSIVE FillDirect(_, _, _)
FillDirect(s, ino, lim) ==
    IF ~Ok(s.m) \/ s.cur >= lim THEN s
    ELSE FillDirect([StoreNext(s, ino.block_id, ino.block_offset + OffDirect(s.cur))
                        EXCEPT !.cur = s.cur + 1], ino, lim)

\* while current_blocks < lim { indirect1[current_blocks] = next; current_blocks += 1 }
RECURSIVE FillIndirect1(_, _, _)
FillIndirect1(s, id, lim) ==
    IF ~Ok(s.m) \/ s.cur >= lim THEN s
    ELSE FillIndirect1([StoreNext(s, id, 4 * s.cur) EXCEPT !.cur = s.cur + 1], id, lim)

\* the inner modify of the double-indirect loop: indirect1[b0] = next, on the block
\* that indirect2[a0] names, and the move to the next (a0, b0)
FillSub(s, indirect2, a0, b0, c) ==
    IF ~Ok(s.m) THEN s
    ELSE LET sub == GetU32(Image(s.m, indirect2), 4 * a0)
         IN  [StoreNext([s EXCEPT !.m = get_mut(get_block_cache(s.m, sub, c), sub)],
                        sub, 4 * b0)
                 EXCEPT !.cur = s.cur + 1]

\* one turn of the loop over (a0, b0) -> (a1, b1) inside the closure on the
\* indirect2 block; s.cur is a0 * INODE_INDIRECT1_COUNT + b0
FillIndirect2Turn(s, indirect2, c) ==
    LET a0 == s.cur \div INODE_INDIRECT1_COUNT
        b0 == s.cur % INODE_INDIRECT1_COUNT
    IN  IF ~Ok(s.m) THEN s
        ELSE IF a0 >= INODE_INDIRECT1_COUNT
             THEN [s EXCEPT !.m = Panic(s.m, "index out of bounds")]
        ELSE FillSub(IF b0 = 0 THEN StoreNext(s, indirect2, 4 * a0) ELSE s,
                     indirect2, a0, b0, c)

\* while (a0 < a1) || (a0 == a1 && b0 < b1): the turns that are left are run as
\* two halves, one after the other, to keep the evaluation shallow
RECURSIVE FillIndirect2(_, _, _, _, _)
FillIndirect2(s, indirect2, a1, b1, c) ==
    LET a0   == s.cur \div INODE_INDIRECT1_COUNT
        b0   == s.cur % INODE_INDIRECT1_COUNT
        half == s.cur + ((a1 - a0) * INODE_INDIRECT1_COUNT + b1 - b0) \div 2
    IN  IF ~Ok(s.m) \/ ~((a0 < a1) \/ (a0 = a1 /\ b0 < b1)) THEN s
        ELSE IF half = s.cur THEN FillIndirect2Turn(s, indirect2, c)
        ELSE FillIndirect2(FillIndirect2(s, indirect2, half \div INODE_INDIRECT1_COUNT,
                                         half % INODE_INDIRECT1_COUNT, c),
                           indirect2, a1, b1, c)

\* current_blocks -= n
Rebase(s, n) == [s EXCEPT !.cur = @ - n]

\* the modify on the indirect2 block, total_blocks already rebased
FillIndirect2At(s, ino, total_blocks_, c) ==
    IF ~Ok(s.m) THEN s
    ELSE LET indirect2 == DiskInode_indirect2(s.m, ino)
         IN  FillIndirect2([s EXCEPT !.m = get_mut(get_block_cache(s.m, indirect2, c),
                                                   indirect2)],
                           indirect2,
                           total_blocks_ \div INODE_INDIRECT1_COUNT,
                           total_blocks_ % INODE_INDIRECT1_COUNT,
                           Hold(c, indirect2))

\* if total_blocks > INODE_INDIRECT1_COUNT { the indirect2 index block } else { return }
IncreaseIndirect2(s, ino, total_blocks_, c) ==
    IF ~Ok(s.m) \/ ~(total_blocks_ > INODE_INDIRECT1_COUNT) THEN s.m
    ELSE FillIndirect2At(
             Rebase(IF s.cur = INODE_INDIRECT1_COUNT
                    THEN StoreNext(s, ino.block_id, ino.block_offset + OffIndirect2)
                    ELSE s, INODE_INDIRECT1_COUNT),
             ino, total_blocks_ - INODE_INDIRECT1_COUNT, c).m

\* the modify on the indirect1 block, total_blocks already rebased
FillIndirect1At(s, ino, total_blocks_, c) ==
    IF ~Ok(s.m) THEN s
    ELSE LET indirect1 == DiskInode_indirect1(s.m, ino)
         IN  FillIndirect1([s EXCEPT !.m = get_mut(get_block_cache(s.m, indirect1, c),
                                                   indirect1)],
                           indirect1, Min(total_blocks_, INODE_INDIRECT1_COUNT))

\* if total_blocks > INODE_DIRECT_COUNT { the indirect1 index block } else { return }
IncreaseIndirect1(s, ino, total_blocks_, c) ==
    IF ~Ok(s.m) \/ ~(total_blocks_ > INODE_DIRECT_COUNT) THEN s.m
    ELSE IncreaseIndirect2(
             FillIndirect1At(
                 Rebase(IF s.cur = INODE_DIRECT_COUNT
                        THEN StoreNext(s, ino.block_id, ino.block_offset + OffIndirect1)
                        ELSE s, INODE_DIRECT_COUNT),
                 ino, total_blocks_ - INODE_DIRECT_COUNT, c),
             ino, total_blocks_ - INODE_DIRECT_COUNT, c)

\* DiskInode::increase_size; c holds the inode's block
DiskInode_increase_size(m, ino, new_size, new_blocks, c) ==
    IF ~Ok(m) THEN m
    ELSE IncreaseIndirect1(
             FillDirect(Loop(SetInodeU32(m, ino, OffSize, new_size), new_blocks,
                             DiskInode_data_blocks(m, ino)),
                        ino, Min(_data_blocks(new_size), INODE_DIRECT_COUNT)),
             ino, _data_blocks(new_size), c)

\* get_block_cache(block id, device).lock(), on the id that get_block_id found
LockBlock(id, c) == [m |-> get_block_cache(id.m, id.v, c), v |-> id.v]

\* the same with .modify: the dirty flag
LockBlockMut(id, c) == [m |-> get_mut(get_block_cache(id.m, id.v, c), id.v), v |-> id.v]

\* the closure of read_at on the data block b.v and read_size += block_read_size:
\* [m, v, buf]
ReadBlock(b, start, end_current_block, read_size, buf) ==
    IF ~Ok(b.m) THEN [m |-> b.m, v |-> read_size, buf |-> buf]
    ELSE [m   |-> b.m,
          v   |-> read_size + (end_current_block - start),
          buf |-> Splice(buf, read_size,
                         SubSeq(Image(b.m, b.v), (start % BLOCK_SZ) + 1,
                                (start % BLOCK_SZ) + (end_current_block - start)))]

RECURSIVE ReadLoop(_, _, _, _, _, _, _, _)

\* if end_current_block == end { break }, else the next block
ReadNext(r, ino, end_current_block, end, start_block, c) ==
    IF ~Ok(r.m) \/ end_current_block = end THEN r
    ELSE ReadLoop(r.m, ino, end_current_block, end, start_block + 1, r.v, r.buf, c)

\* the loop of DiskInode::read_at: [m, v, buf]
ReadLoop(m, ino, start, end, start_block, read_size, buf, c) ==
    ReadNext(ReadBlock(LockBlock(get_block_id(m, ino, start_block, c), c), start,
                       Min((start \div BLOCK_SZ + 1) * BLOCK_SZ, end), read_size, buf),
             ino, Min((start \div BLOCK_SZ + 1) * BLOCK_SZ, end), end, start_block, c)

\* read_at without the clamp of end to the size of the file
DiskInode_read_at_to_buf_end(m, ino, offset, buf, c) ==
    IF ~Ok(m) \/ Len(buf) = 0 THEN [m |-> m, v |-> 0, buf |-> buf]
    ELSE ReadLoop(m, ino, offset, offset + Len(buf), offset \div BLOCK_SZ, 0, buf, c)

\* DiskInode::read_at: [m, v, buf]
DiskInode_read_at(m, ino, offset, buf, c) ==
    IF ~Ok(m) THEN [m |-> m, v |-> 0, buf |-> buf]
    ELSE IF offset >= Min(offset + Len(buf), DiskInode_size(m, ino))
         THEN [m |-> m, v |-> 0, buf |-> buf]
         ELSE ReadLoop(m, ino, offset, Min(offset + Len(buf), DiskInode_size(m, ino)),
                       offset \div BLOCK_SZ, 0, buf, c)

\* src is taken from the start of buf for every block
WriteBlock_restarts_buf(b, start, end_current_block, write_size, buf) ==
    IF ~Ok(b.m) THEN [m |-> b.m, v |-> write_size]
    ELSE [m |-> Store(b.m, b.v, start % BLOCK_SZ,
                      SubSeq(buf, 1, end_current_block - start)),
          v |-> write_size + (end_current_block - start)]

\* the closure of write_at on the data block b.v and write_size += block_write_size:
\* [m, v]
WriteBlock(b, start, end_current_block, write_size, buf) ==
    IF ~Ok(b.m) THEN [m |-> b.m, v |-> write_size]
    ELSE [m |-> Store(b.m, b.v, start % BLOCK_SZ,
                      SubSeq(buf, write_size + 1,
                             write_size + (end_current_block - start))),
          v |-> write_size + (end_current_block - start)]

RECURSIVE WriteLoop(_, _, _, _, _, _, _, _)

\* if end_current_block == end { break }, else the next block
WriteNext(r, ino, end_current_block, end, start_block, buf, c) ==
    IF ~Ok(r.m) \/ end_current_block = end THEN r
    ELSE WriteLoop(r.m, ino, end_current_block, end, start_block + 1, r.v, buf, c)

\* the loop of DiskInode::write_at: [m, v]
WriteLoop(m, ino, start, end, start_block, write_size, buf, c) ==
    WriteNext(WriteBlock(LockBlockMut(get_block_id(m, ino, start_block, c), c), start,
                         Min((start \div BLOCK_SZ + 1) * BLOCK_SZ, end), write_size, buf),
              ino, Min((start \div BLOCK_SZ + 1) * BLOCK_SZ, end), end, start_block, buf, c)

\* DiskInode::write_at: [m, v]
DiskInode_write_at(m, ino, offset, buf, c) ==
    IF ~Ok(m) THEN [m |-> m, v |-> 0]
    ELSE IF ~(offset <= Min(offset + Len(buf), DiskInode_size(m, ino)))
         THEN [m |-> Panic(m, "assert start <= end"), v |-> 0]
         ELSE WriteLoop(m, ino, offset, Min(offset + Len(buf), DiskInode_size(m, ino)),
                        offset \div BLOCK_SZ, 0, buf, c)

\* DirEntry::new(name, inode_number).as_bytes(): [ok, bytes]
DirEntry_new(name, inode_number) ==
    IF Len(name) > NAME_LENGTH_LIMIT + 1 THEN [ok |-> FALSE, bytes |-> << >>]
    ELSE [ok |-> TRUE,
          bytes |-> Splice(Zeros(NAME_LENGTH_LIMIT + 1), 0, name) \o U32Bytes(inode_number)]

DirEntry_empty == Zeros(DIRENT_SZ)

\* DirEntry::name: [ok, name]; the search for the first NUL leaves the array when
\* there is none
DirEntry_name(dirent) ==
    LET nul == {i \in 1..(NAME_LENGTH_LIMIT + 1) : dirent[i] = 0}
    IN  IF nul = {} THEN [ok |-> FALSE, name |-> << >>]
        ELSE [ok |-> TRUE,
              name |-> SubSeq(dirent, 1, (CHOOSE i \in nul : \A j \in nul : i <= j) - 1)]

DirEntry_inode_number(dirent) == GetU32(dirent, NAME_LENGTH_LIMIT + 1)

\* SuperBlock::initialize, as the bytes of the six u32 fields
SuperBlock_initialize(total, inode_bitmap, inode_area, data_bitmap, data_area) ==
    U32Bytes(EFS_MAGIC) \o U32Bytes(total) \o U32Bytes(inode_bitmap)
        \o U32Bytes(inode_area) \o U32Bytes(data_bitmap) \o U32Bytes(data_area)

----------------------------------------------------------------------------
(* Filesystem manager (efs.rs) *)

NoFs == [inode_bitmap |-> [start_block_id |-> 0, blocks |-> 0],
         data_bitmap |-> [start_block_id |-> 0, blocks |-> 0],
         inode_area_start_block |-> 0, data_area_start_block |-> 0]

\* data_area_blocks comes out as data_total_blocks: the bitmap blocks are not
\* taken off
Layout_keeps_bitmap_blocks(total, inode_bitmap_blocks, block_sz, size_of_disk_inode) ==
    LET inode_num          == inode_bitmap_blocks * (block_sz * 8)
        inode_area_blocks  == (inode_num * size_of_disk_inode + block_sz - 1) \div block_sz
        inode_total_blocks == inode_bitmap_blocks + inode_area_blocks
        data_total_blocks  == total - 1 - inode_total_blocks
        data_bitmap_blocks == (data_total_blocks + 4096) \div 4097
    IN  [total_blocks           |-> total,
         inode_bitmap_blocks    |-> inode_bitmap_blocks,
         inode_area_blocks      |-> inode_area_blocks,
         data_total_blocks      |-> data_total_blocks,
         data_bitmap_blocks     |-> data_bitmap_blocks,
         data_area_blocks       |-> data_total_blocks,
         inode_bitmap           |-> [start_block_id |-> 1, blocks |-> inode_bitmap_blocks],
         data_bitmap            |-> [start_block_id |-> 1 + inode_total_blocks,
                                     blocks |-> data_bitmap_blocks],
         inode_area_start_block |-> 1 + inode_bitmap_blocks,
         data_area_start_block  |-> 1 + inode_total_blocks + data_bitmap_blocks]

\* the region arithmetic of EasyFileSystem::create, for a block of block_sz bytes
\* and an inode record of size_of_disk_inode bytes
Layout(total, inode_bitmap_blocks, block_sz, size_of_disk_inode) ==
    LET inode_num          == inode_bitmap_blocks * (block_sz * 8)
        inode_area_blocks  == (inode_num * size_of_disk_inode + block_sz - 1) \div block_sz
        inode_total_blocks == inode_bitmap_blocks + inode_area_blocks
        data_total_blocks  == total - 1 - inode_total_blocks
        data_bitmap_blocks == (data_total_blocks + 4096) \div 4097
        data_area_blocks   == data_total_blocks - data_bitmap_blocks
    IN  [total_blocks           |-> total,
         inode_bitmap_blocks    |-> inode_bitmap_blocks,
         inode_area_blocks      |-> inode_area_blocks,
         data_total_blocks      |-> data_total_blocks,
         data_bitmap_blocks     |-> data_bitmap_blocks,
         data_area_blocks       |-> data_area_blocks,
         inode_bitmap           |-> [start_block_id |-> 1, blocks |-> inode_bitmap_blocks],
         data_bitmap            |-> [start_block_id |-> 1 + inode_total_blocks,
                                     blocks |-> data_bitmap_blocks],
         inode_area_start_block |-> 1 + inode_bitmap_blocks,
         data_area_start_block  |-> 1 + inode_total_blocks + data_bitmap_blocks]

\* the EasyFileSystem of a layout
Manager(l) ==
    [inode_bitmap |-> l.inode_bitmap, data_bitmap |-> l.data_bitmap,
     inode_area_start_block |-> l.inode_area_start_block,
     data_area_start_block |-> l.data_area_start_block]

get_disk_inode_pos(fs, inode_id) ==
    [block_id     |-> fs.inode_area_start_block + inode_id \div (BLOCK_SZ \div DiskInodeSize),
     block_offset |-> (inode_id % (BLOCK_SZ \div DiskInodeSize)) * DiskInodeSize]

\* Option::unwrap of the bit that alloc returned
Unwrap(r) ==
    IF Ok(r.m) /\ r.v = NoBit THEN [m |-> Panic(r.m, "unwrap on None"), v |-> 0] ELSE r

\* as u32 + data_area_start_block
AddStart(r, start) == [m |-> r.m, v |-> r.v + start]

\* [m, v]
alloc_inode(m, fs, c) == Unwrap(Bitmap_alloc(m, fs.inode_bitmap, c))

\* [m, v]
alloc_data(m, fs, c) ==
    AddStart(Unwrap(Bitmap_alloc(m, fs.data_bitmap, c)), fs.data_area_start_block)

\* the block stays set in the bitmap
DeallocBit_keeps_bit(m, fs, block_id, c) ==
    IF ~Ok(m) THEN m
    ELSE IF block_id < fs.data_area_start_block
         THEN Panic(m, "attempt to subtract with overflow")
         ELSE m

\* self.data_bitmap.dealloc(device, block_id - self.data_area_start_block)
DeallocBit(m, fs, block_id, c) ==
    IF ~Ok(m) THEN m
    ELSE IF block_id < fs.data_area_start_block
         THEN Panic(m, "attempt to subtract with overflow")
         ELSE Bitmap_dealloc(m, fs.data_bitmap, block_id - fs.data_area_start_block, c)

\* the bit is cleared in the inode bitmap
dealloc_data_in_inode_bitmap(m, fs, block_id, c) ==
    IF ~Ok(m) THEN m
    ELSE Bitmap_dealloc(ModifyBlock(m, block_id, 0, Zeros(BLOCK_SZ), c), fs.inode_bitmap,
                        block_id - fs.data_area_start_block, c)

\* the block keeps its bytes
dealloc_data_keeps_bytes(m, fs, block_id, c) == DeallocBit(m, fs, block_id, c)

dealloc_data(m, fs, block_id, c) ==
    DeallocBit(ModifyBlock(m, block_id, 0, Zeros(BLOCK_SZ), c), fs, block_id, c)

\* for i in 0..total_blocks: zero block i through the cache
\* (blocks i..total-1 in increasing order; the range is halved to keep the
\* evaluation shallow)
RECURSIVE ZeroAll(_, _, _)
ZeroAll(m, i, total) ==
    IF ~Ok(m) \/ i >= total THEN m
    ELSE IF i + 1 = total THEN ModifyBlock(m, i, 0, Zeros(BLOCK_SZ), NoCtx)
    ELSE ZeroAll(ZeroAll(m, i, (i + total) \div 2), (i + total) \div 2, total)

\* the superblock, through the handle to block 0 that lives to the end of create
WriteSuperBlock(m, l) ==
    ModifyBlock(m, 0, 0,
                SuperBlock_initialize(l.total_blocks, l.inode_bitmap_blocks,
                                      l.inode_area_blocks, l.data_bitmap_blocks,
                                      l.data_area_blocks), NoCtx)

\* assert_eq!(efs.alloc_inode(), 0)
AssertRoot(root) ==
    IF Ok(root.m) /\ root.v # 0 THEN Panic(root.m, "assert_eq alloc_inode 0") ELSE root.m

\* the root inode, initialized as a Directory through a modify on its block
InitRoot(m, pos, c) ==
    DiskInode_initialize(get_mut(get_block_cache(m, pos.block_id, c), pos.block_id),
                         pos, Directory)

\* EasyFileSystem::create after the region arithmetic: [m, fs]
CreateOn(m, l) ==
    [m  |-> block_cache_sync_all(
                InitRoot(AssertRoot(alloc_inode(WriteSuperBlock(ZeroAll(m, 0, l.total_blocks), l),
                                                Manager(l), Pin(NoCtx, 0))),
                         get_disk_inode_pos(Manager(l), 0), Pin(NoCtx, 0))),
     fs |-> Manager(l)]

\* EasyFileSystem::create: [m, fs]
EasyFileSystem_create(m, total, inode_bitmap_blocks) ==
    CreateOn(m, Layout(total, inode_bitmap_blocks, BLOCK_SZ, DiskInodeSize))

\* SuperBlock::is_valid: the four bytes of magic are those of EFS_MAGIC
SuperBlock_is_valid(super_block) == SubSeq(super_block, 1, 4) = U32Bytes(EFS_MAGIC)

\* data_area_start_block leaves the data bitmap blocks out
Opened_skips_data_bitmap(m, super_block) ==
    IF ~Ok(m) THEN [m |-> m, fs |-> NoFs]
    ELSE IF ~SuperBlock_is_valid(super_block)
         THEN [m |-> Panic(m, "Error loading EFS!"), fs |-> NoFs]
    ELSE [m  |-> m,
          fs |-> [inode_bitmap |-> [start_block_id |-> 1,
                                    blocks |-> GetU32(super_block, 8)],
                  data_bitmap |-> [start_block_id |->
                                       1 + GetU32(super_block, 8) + GetU32(super_block, 12),
                                   blocks |-> GetU32(super_block, 16)],
                  inode_area_start_block |-> 1 + GetU32(super_block, 8),
                  data_area_start_block |->
                      1 + GetU32(super_block, 8) + GetU32(super_block, 12)]]

\* the closure of open on the superblock (magic, total_blocks, inode_bitmap_blocks,
\* inode_area_blocks, data_bitmap_blocks, data_area_blocks): [m, fs]
Opened(m, super_block) ==
    IF ~Ok(m) THEN [m |-> m, fs |-> NoFs]
    ELSE IF ~SuperBlock_is_valid(super_block)
         THEN [m |-> Panic(m, "Error loading EFS!"), fs |-> NoFs]
    ELSE [m  |-> m,
          fs |-> [inode_bitmap |-> [start_block_id |-> 1,
                                    blocks |-> GetU32(super_block, 8)],
                  data_bitmap |-> [start_block_id |->
                                       1 + GetU32(super_block, 8) + GetU32(super_block, 12),
                                   blocks |-> GetU32(super_block, 16)],
                  inode_area_start_block |-> 1 + GetU32(super_block, 8),
                  data_area_start_block |->
                      1 + GetU32(super_block, 8) + GetU32(super_block, 12)
                        + GetU32(super_block, 16)]]

\* cache.lock().read(0, |super_block| ...)
OpenOn(m) == IF ~Ok(m) THEN [m |-> m, fs |-> NoFs] ELSE Opened(m, Image(m, 0))

\* EasyFileSystem::open: [m, fs]
EasyFileSystem_open(m) == OpenOn(get_block_cache(m, 0, NoCtx))

\* EasyFileSystem::root_inode
root_inode(fs) == get_disk_inode_pos(fs, 0)

----------------------------------------------------------------------------
(* Inode facade (vfs.rs).  Every public call runs under the manager's lock. *)

\* Option::None of an inode number
NoInode == -1

NoHandle == [block_id |-> 0, block_offset |-> 0]

\* read_disk_inode: the handle and the lock on the inode's block, before f runs
read_disk_inode(m, self) == get_block_cache(m, self.block_id, NoCtx)

\* modify_disk_inode: the same, and the dirty flag of get_mut; c are the handles
\* the caller still holds
modify_disk_inode(m, self, c) == get_mut(get_block_cache(m, self.block_id, c), self.block_id)

RECURSIVE FindLoop(_, _, _, _, _, _)

\* the inode number goes one too high
FindEntry_off_by_one(r, self, name, i, file_count, c) ==
    IF ~Ok(r.m) THEN [m |-> r.m, v |-> NoInode]
    ELSE IF r.v # DIRENT_SZ
         THEN [m |-> Panic(r.m, "assert_eq read_at DIRENT_SZ"), v |-> NoInode]
    ELSE IF ~DirEntry_name(r.buf).ok
         THEN [m |-> Panic(r.m, "index out of bounds"), v |-> NoInode]
    ELSE IF DirEntry_name(r.buf).name = name
         THEN [m |-> r.m, v |-> DirEntry_inode_number(r.buf) + 1]
    ELSE FindLoop(r.m, self, name, i + 1, file_count, c)

\* the body of the loop of find_inode_id, after read_at filled dirent: [m, v]
FindEntry(r, self, name, i, file_count, c) ==
    IF ~Ok(r.m) THEN [m |-> r.m, v |-> NoInode]
    ELSE IF r.v # DIRENT_SZ
         THEN [m |-> Panic(r.m, "assert_eq read_at DIRENT_SZ"), v |-> NoInode]
    ELSE IF ~DirEntry_name(r.buf).ok
         THEN [m |-> Panic(r.m, "index out of bounds"), v |-> NoInode]
    ELSE IF DirEntry_name(r.buf).name = name
         THEN [m |-> r.m, v |-> DirEntry_inode_number(r.buf)]
    ELSE FindLoop(r.m, self, name, i + 1, file_count, c)

\* for i in 0..file_count: [m, v]
FindLoop(m, self, name, i, file_count, c) ==
    IF ~Ok(m) \/ i >= file_count THEN [m |-> m, v |-> NoInode]
    ELSE FindEntry(DiskInode_read_at(m, self, DIRENT_SZ * i, DirEntry_empty, c),
                   self, name, i, file_count, c)

\* find_inode_id, called inside a closure on the directory's inode: [m, v]
find_inode_id(m, self, name, c) ==
    IF ~Ok(m) THEN [m |-> m, v |-> NoInode]
    ELSE IF ~DiskInode_is_dir(m, self)
         THEN [m |-> Panic(m, "assert is_dir"), v |-> NoInode]
         ELSE FindLoop(m, self, name, 0, DiskInode_size(m, self) \div DIRENT_SZ, c)

\* .map(|inode_id| Inode::new(fs.get_disk_inode_pos(inode_id))): [m, found, h]
FoundHandle(r, fs) ==
    IF Ok(r.m) /\ r.v # NoInode
    THEN [m |-> r.m, found |-> TRUE, h |-> get_disk_inode_pos(fs, r.v)]
    ELSE [m |-> r.m, found |-> FALSE, h |-> NoHandle]

\* Inode::find: [m, found, h]
Inode_find(m, fs, self, name) ==
    FoundHandle(find_inode_id(read_disk_inode(m, self), self, name,
                              Hold(NoCtx, self.block_id)), fs)

RECURSIVE AllocBlocks(_, _, _, _, _)

\* v.push(fs.alloc_data())
PushBlock(r, fs, n, v, c) == AllocBlocks(r.m, fs, n - 1, Append(v, r.v), c)

\* for _ in 0..blocks_needed { v.push(fs.alloc_data()) }: [m, v]
AllocBlocks(m, fs, n, v, c) ==
    IF ~Ok(m) \/ n = 0 THEN [m |-> m, v |-> v]
    ELSE PushBlock(alloc_data(m, fs, c), fs, n, v, c)

\* one block more than blocks_num_needed says
AllocNeeded_one_more(blocks_needed, fs, c) ==
    AllocBlocks(blocks_needed.m, fs, blocks_needed.v + 1, << >>, c)

\* the loop of Inode::increase_size over blocks_needed: [m, v]
AllocNeeded(blocks_needed, fs, c) ==
    AllocBlocks(blocks_needed.m, fs, blocks_needed.v, << >>, c)

\* disk_inode.increase_size(new_size, v, device)
IncreaseBy(v, ino, new_size, c) == DiskInode_increase_size(v.m, ino, new_size, v.v, c)

\* Inode::increase_size, inside a modify closure on the inode
Inode_increase_size(m, fs, ino, new_size, c) ==
    IF ~Ok(m) THEN m
    ELSE IF new_size < DiskInode_size(m, ino) THEN m
    ELSE IncreaseBy(AllocNeeded(blocks_num_needed(m, ino, new_size), fs, c),
                    ino, new_size, c)

\* the new inode, initialized as a File through a modify on its block
InitFile(m, pos) ==
    DiskInode_initialize(get_mut(get_block_cache(m, pos.block_id, NoCtx), pos.block_id),
                         pos, File)

\* root_inode.write_at(file_count * DIRENT_SZ, dirent.as_bytes(), device)
WriteEntry(m, self, file_count, dirent, c) ==
    IF Ok(m) /\ ~dirent.ok THEN Panic(m, "range end index out of range")
    ELSE DiskInode_write_at(m, self, file_count * DIRENT_SZ, dirent.bytes, c).m

\* the closure of modify_disk_inode in create: the directory grows by one entry
AddEntry(m, fs, self, name, inode_id, c) ==
    IF ~Ok(m) THEN m
    ELSE WriteEntry(Inode_increase_size(m, fs, self,
                        (DiskInode_size(m, self) \div DIRENT_SZ + 1) * DIRENT_SZ, c),
                    self, DiskInode_size(m, self) \div DIRENT_SZ,
                    DirEntry_new(name, inode_id), c)

\* Some(Inode::new(block_id, block_offset, ..)): [m, found, h, inode_id]
Created(m, pos, inode_id) ==
    [m |-> m, found |-> Ok(m), h |-> pos, inode_id |-> inode_id]

\* create after alloc_inode; the handle to the new inode's block lives to the end
LinkFile(new_inode_id, fs, self, name) ==
    LET pos == get_disk_inode_pos(fs, new_inode_id.v)
    IN  Created(block_cache_sync_all(
                    AddEntry(modify_disk_inode(InitFile(new_inode_id.m, pos), self,
                                               Pin(NoCtx, pos.block_id)),
                             fs, self, name, new_inode_id.v,
                             Hold(Pin(NoCtx, pos.block_id), self.block_id))),
                pos, new_inode_id.v)

\* an entry of the same name is not looked at
CreateFile_ignores_entry(dup, fs, self, name) ==
    IF ~Ok(dup.m)
    THEN [m |-> dup.m, found |-> FALSE, h |-> NoHandle, inode_id |-> NoInode]
    ELSE LinkFile(alloc_inode(dup.m, fs, NoCtx), fs, self, name)

\* if self.read_disk_inode(op).is_some() { return None }, else the new file
CreateFile(dup, fs, self, name) ==
    IF ~Ok(dup.m) \/ dup.v # NoInode
    THEN [m |-> dup.m, found |-> FALSE, h |-> NoHandle, inode_id |-> NoInode]
    ELSE LinkFile(alloc_inode(dup.m, fs, NoCtx), fs, self, name)

\* Inode::create: [m, found (Some), h, inode_id]; the closure op asserts is_dir
\* as find_inode_id does
Inode_create(m, fs, self, name) ==
    CreateFile(find_inode_id(read_disk_inode(m, self), self, name,
                             Hold(NoCtx, self.block_id)),
               fs, self, name)

RECURSIVE LsLoop(_, _, _, _, _, _)

\* the name goes to the front of v
LsEntry_pushes_front(r, self, i, file_count, v, c) ==
    IF ~Ok(r.m) THEN [m |-> r.m, v |-> v]
    ELSE IF r.v # DIRENT_SZ
         THEN [m |-> Panic(r.m, "assert_eq read_at DIRENT_SZ"), v |-> v]
    ELSE IF ~DirEntry_name(r.buf).ok
         THEN [m |-> Panic(r.m, "index out of bounds"), v |-> v]
    ELSE LsLoop(r.m, self, i + 1, file_count, <<DirEntry_name(r.buf).name>> \o v, c)

\* the body of the loop of ls, after read_at filled dirent: [m, v]
LsEntry(r, self, i, file_count, v, c) ==
    IF ~Ok(r.m) THEN [m |-> r.m, v |-> v]
    ELSE IF r.v # DIRENT_SZ
         THEN [m |-> Panic(r.m, "assert_eq read_at DIRENT_SZ"), v |-> v]
    ELSE IF ~DirEntry_name(r.buf).ok
         THEN [m |-> Panic(r.m, "index out of bounds"), v |-> v]
    ELSE LsLoop(r.m, self, i + 1, file_count, Append(v, DirEntry_name(r.buf).name), c)

\* for i in 0..file_count: [m, v]
LsLoop(m, self, i, file_count, v, c) ==
    IF ~Ok(m) \/ i >= file_count THEN [m |-> m, v |-> v]
    ELSE LsEntry(DiskInode_read_at(m, self, i * DIRENT_SZ, DirEntry_empty, c),
                 self, i, file_count, v, c)

\* the closure of read_disk_inode in ls: [m, v]
LsBody(m, self, c) ==
    IF ~Ok(m) THEN [m |-> m, v |-> << >>]
    ELSE LsLoop(m, self, 0, DiskInode_size(m, self) \div DIRENT_SZ, << >>, c)

\* Inode::ls: [m, v]
Inode_ls(m, self) == LsBody(read_disk_inode(m, self), self, Hold(NoCtx, self.block_id))

\* Inode::read_at: [m, v, buf]
Inode_read_at(m, self, offset, buf) ==
    DiskInode_read_at(read_disk_inode(m, self), self, offset, buf,
                      Hold(NoCtx, self.block_id))

\* block_cache_sync_all(); size
Synced(w) == [m |-> block_cache_sync_all(w.m), v |-> w.v]

\* write_at that does not grow the file first
Inode_write_at_without_increase_size(m, fs, self, offset, buf) ==
    Synced(DiskInode_write_at(modify_disk_inode(m, self, NoCtx), self, offset, buf,
                              Hold(NoCtx, self.block_id)))

\* Inode::write_at: [m, v]
Inode_write_at(m, fs, self, offset, buf) ==
    Synced(DiskInode_write_at(
               Inode_increase_size(modify_disk_inode(m, self, NoCtx), fs, self,
                                   offset + Len(buf), Hold(NoCtx, self.block_id)),
               self, offset, buf, Hold(NoCtx, self.block_id)))

\* the first n slots of the IndirectBlock in the locked block id
Slots(m, id, n) == [i \in 1..n |-> GetU32(Image(m, id), 4 * (i - 1))]

\* v, the index block id and the first n slots of it, read under the lock on id
SlotsBehind(m, v, id, n) ==
    IF ~Ok(m) THEN [m |-> m, v |-> v]
    ELSE [m |-> m, v |-> v \o <<id>> \o Slots(m, id, n)]

\* r and the first n slots of the IndirectBlock in block id, behind id itself
AppendSlots(r, id, n, c) == SlotsBehind(get_block_cache(r.m, id, c), r.v, id, n)

\* the second-level index blocks a..., each followed by the data blocks under it,
\* for the n data blocks that remain: [m, v]
RECURSIVE ClearIndirect2(_, _, _, _, _)
ClearIndirect2(r, indirect2, a, n, c) ==
    IF ~Ok(r.m) \/ n = 0 THEN r
    ELSE ClearIndirect2(AppendSlots(r, GetU32(Image(r.m, indirect2), 4 * a),
                                    Min(n, INODE_INDIRECT1_COUNT), c),
                        indirect2, a + 1, n - Min(n, INODE_INDIRECT1_COUNT), c)

\* r and the indirect2 index block, under a lock on it
LockIndirect2(r, indirect2, c) ==
    [m |-> get_block_cache(r.m, indirect2, c), v |-> r.v \o <<indirect2>>]

\* the inode emptied: size, direct, indirect1 and indirect2 are 0
Emptied(r, ino) ==
    [m |-> Store(r.m, ino.block_id, ino.block_offset, Zeros(4 * (INODE_DIRECT_COUNT + 3))),
     v |-> r.v]

\* DiskInode::clear_size: every block the inode refers to (direct, the indirect1
\* index, the data under it, the indirect2 index, each second-level index and
\* the data under it), and the inode emptied: [m, v]
DiskInode_clear_size(m, ino, c) ==
    IF ~Ok(m) THEN [m |-> m, v |-> << >>]
    ELSE
    LET data_blocks == DiskInode_data_blocks(m, ino)
        direct == [m |-> m,
                   v |-> [i \in 1..Min(data_blocks, INODE_DIRECT_COUNT) |->
                             DiskInode_direct(m, ino, i - 1)]]
    IN  IF data_blocks <= INODE_DIRECT_COUNT THEN Emptied(direct, ino)
        ELSE IF data_blocks <= INDIRECT1_BOUND
        THEN Emptied(AppendSlots(direct, DiskInode_indirect1(m, ino),
                                 data_blocks - INODE_DIRECT_COUNT, c), ino)
        ELSE Emptied(
                 ClearIndirect2(
                     LockIndirect2(AppendSlots(direct, DiskInode_indirect1(m, ino),
                                               INODE_INDIRECT1_COUNT, c),
                                   DiskInode_indirect2(m, ino), c),
                     DiskInode_indirect2(m, ino), 0, data_blocks - INDIRECT1_BOUND,
                     Hold(c, DiskInode_indirect2(m, ino))),
                 ino)

RECURSIVE DeallocAll(_, _, _, _)

\* the body of the loop is left out
DeallocAll_skips_body(m, fs, v, c) ==
    IF ~Ok(m) \/ v = << >> THEN m
    ELSE DeallocAll(m, fs, Tail(v), c)

\* for data_block in data_blocks_dealloc { fs.dealloc_data(data_block) }
DeallocAll(m, fs, v, c) ==
    IF ~Ok(m) \/ v = << >> THEN m
    ELSE DeallocAll(dealloc_data(m, fs, Head(v), c), fs, Tail(v), c)

\* assert!(data_blocks_dealloc.len() == DiskInode::total_blocks(size) as usize)
AssertLen(data_blocks_dealloc, size) ==
    IF Ok(data_blocks_dealloc.m) /\ Len(data_blocks_dealloc.v) # total_blocks(size)
    THEN Panic(data_blocks_dealloc.m, "assert len == total_blocks(size)")
    ELSE data_blocks_dealloc.m

\* the rest of the closure of clear, and block_cache_sync_all: [m, v]
Release(data_blocks_dealloc, size, fs, c) ==
    [m |-> block_cache_sync_all(DeallocAll(AssertLen(data_blocks_dealloc, size), fs,
                                           data_blocks_dealloc.v, c)),
     v |-> data_blocks_dealloc.v]

\* the closure of modify_disk_inode in clear: [m, v]
ClearBody(m, fs, self, c) ==
    IF ~Ok(m) THEN [m |-> m, v |-> << >>]
    ELSE Release(DiskInode_clear_size(m, self, c), DiskInode_size(m, self), fs, c)

\* Inode::clear: [m, v], v the list clear_size returned
Inode_clear(m, fs, self) ==
    ClearBody(modify_disk_inode(m, self, NoCtx), fs, self, Hold(NoCtx, self.block_id))

----------------------------------------------------------------------------
(* The volume as the next call will see it: a resident image, else the device *)

View(b) == IF Resident(queue, b) THEN Image(Machine, b) ELSE dev[b]

\* the blocks of the bitmap bm, in order
BitmapImage(bm) == [i \in 1..bm.blocks |-> View(bm.start_block_id + i - 1)]

\* the set bits of bm: bit 8 * j + k of a block is bit k of its byte j
Bits(bm) ==
    UNION { LET img == View(bm.start_block_id + b)
            IN  { b * BLOCK_BITS + 8 * j + k : <<j, k>> \in
                    { p \in (0..(BLOCK_SZ - 1)) \X (0..7) :
                        img[p[1] + 1] # 0 /\ BitOfByte(img[p[1] + 1], p[2]) = 1 } }
            : b \in 0..(bm.blocks - 1) }

InodeBits == Bits(efs.inode_bitmap)

DataBits == Bits(efs.data_bitmap)

\* field at byte offset off of the inode record at position ino
ViewInodeU32(ino, off) == GetU32(View(ino.block_id), ino.block_offset + off)

ViewSize(ino) == ViewInodeU32(ino, OffSize)

\* slot idx of the index block b
ViewSlot(b, idx) == GetU32(View(b), 4 * idx)

\* the block that holds data block inner_id of the inode at ino
ViewBlockId(ino, inner_id) ==
    IF inner_id < INODE_DIRECT_COUNT THEN ViewInodeU32(ino, OffDirect(inner_id))
    ELSE IF inner_id < INDIRECT1_BOUND
         THEN ViewSlot(ViewInodeU32(ino, OffIndirect1), inner_id - INODE_DIRECT_COUNT)
    ELSE ViewSlot(ViewSlot(ViewInodeU32(ino, OffIndirect2),
                           (inner_id - INDIRECT1_BOUND) \div INODE_INDIRECT1_COUNT),
                  (inner_id - INDIRECT1_BOUND) % INODE_INDIRECT1_COUNT)

\* the bytes of the file at ino
ViewFile(ino) ==
    [i \in 1..ViewSize(ino) |->
        View(ViewBlockId(ino, (i - 1) \div BLOCK_SZ))[((i - 1) % BLOCK_SZ) + 1]]

\* the slots of the block map of the inode at ino that its size puts in use, each
\* <<level, index, block id>>
MapSlots(ino) ==
    LET n    == _data_blocks(ViewSize(ino))
        ind1 == ViewInodeU32(ino, OffIndirect1)
        ind2 == ViewInodeU32(ino, OffIndirect2)
        rest == n - INDIRECT1_BOUND
    IN  { <<"direct", i, ViewInodeU32(ino, OffDirect(i))>> :
              i \in 0..(Min(n, INODE_DIRECT_COUNT) - 1) }
        \cup (IF n > INODE_DIRECT_COUNT
              THEN { <<"indirect1", 0, ind1>> }
                   \cup { <<"indirect1 slot", i, ViewSlot(ind1, i)>> :
                             i \in 0..(Min(n - INODE_DIRECT_COUNT, INODE_INDIRECT1_COUNT) - 1) }
              ELSE {})
        \cup (IF n > INDIRECT1_BOUND
              THEN { <<"indirect2", 0, ind2>> }
                   \cup { <<"indirect2 slot", a, ViewSlot(ind2, a)>> :
                             a \in 0..((rest - 1) \div INODE_INDIRECT1_COUNT) }
                   \cup { <<"second level slot", k,
                            ViewSlot(ViewSlot(ind2, k \div INODE_INDIRECT1_COUNT),
                                     k % INODE_INDIRECT1_COUNT)>> : k \in 0..(rest - 1) }
              ELSE {})

\* the slots in use of every inode whose bit is set in the inode bitmap, each
\* <<inode id, level, index, block id>>
AllSlots ==
    UNION { { <<id>> \o s : s \in MapSlots(get_disk_inode_pos(efs, id)) } : id \in InodeBits }

\* what a clear of the inode at h is to leave alone: the inode bitmap, the size
\* and the entries of the root directory, and the size and the block map of
\* every other inode
Frame(h) ==
    [inode_bits |-> InodeBits,
     dir_size   |-> ViewSize(root_inode(efs)),
     dir        |-> ViewFile(root_inode(efs)),
     others     |-> { <<id, ViewSize(get_disk_inode_pos(efs, id)),
                        MapSlots(get_disk_inode_pos(efs, id))>> :
                          id \in {x \in InodeBits : get_disk_inode_pos(efs, x) # h} }]

\* the names of the successful creates, in order
CreatedNames == [i \in 1..Len(created) |-> created[i].name]

----------------------------------------------------------------------------
(* Inputs *)

\* blocks of the data area of the volume that is formatted
DataAreaBlocks == 40

\* total_blocks passed to EasyFileSystem::create with one inode bitmap block:
\* superblock, inode bitmap, inode area, one data bitmap block, data area
VolumeBlocks ==
    3 + (BLOCK_BITS * DiskInodeSize + BLOCK_SZ - 1) \div BLOCK_SZ + DataAreaBlocks

\* what the device holds before it is formatted
DeviceFill == {0, 170}

\* a device of n blocks that all hold the byte fill, and an empty cache
Blank(n, fill) ==
    [queue |-> << >>, dev |-> [b \in 0..(n - 1) |-> [i \in 1..BLOCK_SZ |-> fill]],
     fatal |-> "none", written |-> [b \in 0..(n - 1) |-> [i \in 1..BLOCK_SZ |-> fill]],
     flushed |-> {}, peak |-> 0]

\* file names: "a", "ab", and a name that fills the name field of a DirEntry
Names == { <<97>>, <<97, 98>>, [i \in 1..(NAME_LENGTH_LIMIT + 1) |-> 96 + i] }

\* a payload of len bytes, none of them 0
Payload(len, seed) == [i \in 1..len |-> ((7 * i + seed) % 250) + 1]

\* lengths: empty, inside a block, across the direct range, into the
\* double-indirect range, into its second index block
Lens == { 0, 3, INODE_DIRECT_COUNT * BLOCK_SZ + 5, INDIRECT1_BOUND * BLOCK_SZ + 7,
          (INDIRECT1_BOUND + INODE_INDIRECT1_COUNT) * BLOCK_SZ + 1 }

\* the (offset, length) of the writes that are tried: each length at offset 0,
\* and a write across the end of the first block
Writes == {<<0, len>> : len \in Lens} \cup { <<BLOCK_SZ - 1, 3>> }

\* the (offset, length) of the reads that are tried on a file of size bytes:
\* the whole file, a read that runs past its end, and a read of one byte
Reads(size) == { <<0, size>>, <<1, 10>>, <<1, 1>> }

\* calls made after the volume is formatted, and those of them that change
\* nothing on the volume (find, ls, read_at)
MaxCalls == 4

MaxQueries == 1

\* payload patterns
Seeds == {1}

----------------------------------------------------------------------------
(* The filesystem as a state machine: one action per public call *)

\* the record of a public call: its arguments, what it returned (ok: it returned
\* at all), the size of the inode and the data bitmap when it was made, and
\* before: the bytes of the file when write_at was called, the rest of the volume
\* when clear was called
Call(op, h, name, offset, buf) ==
    [op |-> op, h |-> h, name |-> name, offset |-> offset, buf |-> buf,
     ok |-> TRUE, found |-> FALSE, ret |-> 0, out |-> << >>,
     size_before |-> 0, bits_before |-> {}, before |-> << >>]

NoCall == Call("none", NoHandle, << >>, 0, << >>)

NoCalls == [updates |-> 0, queries |-> 0, frees |-> 0]

Commit(m) == /\ written' = m.written
             /\ flushed' = m.flushed
             /\ peak' = m.peak
             /\ queue' = m.queue
             /\ dev' = m.dev
             /\ fatal' = m.fatal

Running == fatal = "none" /\ efs # NoFs

Update == /\ calls.updates + calls.queries < MaxCalls
          /\ calls' = [calls EXCEPT !.updates = @ + 1]

Free == /\ calls.updates + calls.queries < MaxCalls
        /\ calls' = [calls EXCEPT !.updates = @ + 1, !.frees = @ + 1]

Query == /\ calls.updates + calls.queries < MaxCalls
         /\ calls.queries < MaxQueries
         /\ calls' = [calls EXCEPT !.queries = @ + 1]

Root == root_inode(efs)

\* an unformatted device, and nothing called yet
Init ==
    /\ \E fill \in DeviceFill : /\ queue = Blank(VolumeBlocks, fill).queue
                                /\ dev = Blank(VolumeBlocks, fill).dev
                                /\ fatal = Blank(VolumeBlocks, fill).fatal
                                /\ written = Blank(VolumeBlocks, fill).written
                                /\ flushed = {}
                                /\ peak = 0
    /\ efs = NoFs
    /\ handles = {}
    /\ created = << >>
    /\ last = NoCall
    /\ prev = NoCall
    /\ calls = NoCalls
    /\ bitmap = NoFs.data_bitmap
    /\ held = {}
    /\ shared = {}
    /\ images = << >>
    /\ threads = << >>

FormatDone(r) ==
    /\ Commit(r.m)
    /\ efs' = r.fs
    /\ last' = [Call("format", NoHandle, << >>, 0, << >>) EXCEPT !.ok = Ok(r.m)]

\* EasyFileSystem::create(device, VolumeBlocks, 1)
Format ==
    /\ fatal = "none" /\ efs = NoFs
    /\ FormatDone(EasyFileSystem_create(Machine, VolumeBlocks, 1))
    /\ prev' = last
    /\ UNCHANGED <<handles, created, calls, bitmap, held, shared, images, threads>>

CreateDone(name, r) ==
    /\ Commit(r.m)
    /\ handles' = IF r.found THEN handles \cup {r.h} ELSE handles
    /\ created' = IF r.found
                  THEN Append(created, [name |-> name, h |-> r.h, inode_id |-> r.inode_id])
                  ELSE created
    /\ last' = [Call("create", r.h, name, 0, << >>) EXCEPT
                   !.ok = Ok(r.m), !.found = r.found, !.ret = r.inode_id,
                   !.size_before = ViewSize(Root),
                   !.bits_before = BitmapImage(efs.data_bitmap)]

\* root.create(name)
Create(name) ==
    /\ Running /\ Update
    /\ CreateDone(name, Inode_create(Machine, efs, Root, name))
    /\ prev' = last
    /\ UNCHANGED <<efs, bitmap, held, shared, images, threads>>

FindDone(name, r) ==
    /\ Commit(r.m)
    /\ handles' = IF r.found THEN handles \cup {r.h} ELSE handles
    /\ last' = [Call("find", r.h, name, 0, << >>) EXCEPT
                   !.ok = Ok(r.m), !.found = r.found,
                   !.size_before = ViewSize(Root),
                   !.bits_before = BitmapImage(efs.data_bitmap)]

\* root.find(name)
Find(name) ==
    /\ Running /\ Query
    /\ FindDone(name, Inode_find(Machine, efs, Root, name))
    /\ prev' = last
    /\ UNCHANGED <<efs, created, bitmap, held, shared, images, threads>>

LsDone(r) ==
    /\ Commit(r.m)
    /\ last' = [Call("ls", Root, << >>, 0, << >>) EXCEPT
                   !.ok = Ok(r.m), !.out = r.v,
                   !.size_before = ViewSize(Root),
                   !.bits_before = BitmapImage(efs.data_bitmap)]

\* root.ls()
Ls ==
    /\ Running /\ Query
    /\ LsDone(Inode_ls(Machine, Root))
    /\ prev' = last
    /\ UNCHANGED <<efs, handles, created, bitmap, held, shared, images, threads>>

ReadAtDone(h, offset, buf, r) ==
    /\ Commit(r.m)
    /\ last' = [Call("read_at", h, << >>, offset, buf) EXCEPT
                   !.ok = Ok(r.m), !.ret = r.v, !.out = r.buf,
                   !.size_before = ViewSize(h),
                   !.bits_before = BitmapImage(efs.data_bitmap)]

\* h.read_at(offset, buf), buf a buffer of len bytes 255
ReadAt(h, offset, len) ==
    /\ Running /\ Query
    /\ ReadAtDone(h, offset, [i \in 1..len |-> 255],
                  Inode_read_at(Machine, h, offset, [i \in 1..len |-> 255]))
    /\ prev' = last
    /\ UNCHANGED <<efs, handles, created, bitmap, held, shared, images, threads>>

WriteAtDone(h, offset, buf, r) ==
    /\ Commit(r.m)
    /\ last' = [Call("write_at", h, << >>, offset, buf) EXCEPT
                   !.ok = Ok(r.m), !.ret = r.v,
                   !.before = ViewFile(h),
                   !.size_before = ViewSize(h),
                   !.bits_before = BitmapImage(efs.data_bitmap)]

\* h.write_at(offset, buf)
WriteAt(h, offset, buf) ==
    /\ Running /\ Update
    /\ WriteAtDone(h, offset, buf, Inode_write_at(Machine, efs, h, offset, buf))
    /\ prev' = last
    /\ UNCHANGED <<efs, handles, created, bitmap, held, shared, images, threads>>

ClearDone(h, r) ==
    /\ Commit(r.m)
    /\ last' = [Call("clear", h, << >>, 0, << >>) EXCEPT
                   !.ok = Ok(r.m), !.out = r.v,
                   !.before = Frame(h),
                   !.size_before = ViewSize(h),
                   !.bits_before = BitmapImage(efs.data_bitmap)]

\* h.clear()
Clear(h) ==
    /\ Running /\ Free
    /\ ClearDone(h, Inode_clear(Machine, efs, h))
    /\ prev' = last
    /\ UNCHANGED <<efs, handles, created, bitmap, held, shared, images, threads>>

\* the record of find, create or ls called on the handle h of a file
OnFileDone(op, h, name, r, out) ==
    /\ Commit(r.m)
    /\ last' = [Call(op, h, name, 0, << >>) EXCEPT
                   !.ok = Ok(r.m), !.out = out,
                   !.size_before = ViewSize(h),
                   !.bits_before = BitmapImage(efs.data_bitmap)]
    /\ prev' = last
    /\ UNCHANGED <<efs, bitmap, held, shared, images, threads>>

FindOnFileDone(h, name, r) ==
    /\ OnFileDone("find on file", h, name, r, << >>)
    /\ handles' = IF r.found THEN handles \cup {r.h} ELSE handles
    /\ UNCHANGED created

\* h.find(name), h the handle of a file
FindOnFile(h, name) ==
    /\ Running /\ Query
    /\ FindOnFileDone(h, name, Inode_find(Machine, efs, h, name))

CreateOnFileDone(h, name, r) ==
    /\ OnFileDone("create on file", h, name, r, << >>)
    /\ handles' = IF r.found THEN handles \cup {r.h} ELSE handles
    /\ UNCHANGED created

\* h.create(name), h the handle of a file
CreateOnFile(h, name) ==
    /\ Running /\ Update
    /\ CreateOnFileDone(h, name, Inode_create(Machine, efs, h, name))

LsOnFileDone(h, r) ==
    /\ OnFileDone("ls on file", h, << >>, r, r.v)
    /\ UNCHANGED <<handles, created>>

\* h.ls(), h the handle of a file
LsOnFile(h) ==
    /\ Running /\ Query
    /\ LsOnFileDone(h, Inode_ls(Machine, h))

OpenDone(r) ==
    /\ Commit(r.m)
    /\ last' = [Call("open", NoHandle, << >>, 0, << >>) EXCEPT
                   !.ok = Ok(r.m), !.out = r.fs,
                   !.size_before = 0,
                   !.bits_before = {}]

\* EasyFileSystem::open(device), on a formatted or an unformatted device; the
\* manager it returns is last.out
Open ==
    /\ fatal = "none" /\ Query
    /\ OpenDone(EasyFileSystem_open(Machine))
    /\ prev' = last
    /\ UNCHANGED <<efs, handles, created, bitmap, held, shared, images, threads>>

Next ==
    \/ Format
    \/ Open
    \/ \E name \in Names : Create(name)
    \/ \E name \in Names : Find(name)
    \/ Ls
    \/ \E h \in handles : \E rq \in Reads(ViewSize(h)) : ReadAt(h, rq[1], rq[2])
    \/ \E h \in handles, rq \in Writes, seed \in Seeds :
           WriteAt(h, rq[1], Payload(rq[2], seed))
    \/ \E h \in handles : Clear(h)
    \/ \E h \in handles : FindOnFile(h, <<97>>)
    \/ \E h \in handles : CreateOnFile(h, <<97>>)
    \/ \E h \in handles : LsOnFile(h)

Spec == Init /\ [][Next]_vars

----------------------------------------------------------------------------
(* Properties of the filesystem, under Spec *)

\* the last two calls were h.write_at(0, S) on a file of size 0 that was never
\* cleared and then h.read_at(0, buf) with |buf| = |S|; no call has failed
WroteThenRead ==
    /\ fatal = "none" /\ calls.frees = 0
    /\ last.op = "read_at"
    /\ prev.op = "write_at"
    /\ prev.h = last.h
    /\ prev.offset = 0 /\ prev.size_before = 0
    /\ last.offset = 0 /\ Len(last.buf) = Len(prev.buf)

\* C1: round trip.  On a freshly created file, write_at(0, S) followed by
\* read_at(0, buf) with |buf| = |S| returns |S| and leaves buf equal to S, for S
\* inside the direct range, in the single-indirect range and in the
\* double-indirect range.
C1_RoundTrip ==
    WroteThenRead => /\ prev.ret = Len(prev.buf)
                     /\ last.ret = Len(prev.buf)
                     /\ last.out = prev.buf

\* a round trip of a string that reaches the second index block of the
\* double-indirect range
C1_Witness ==
    /\ WroteThenRead
    /\ _data_blocks(Len(prev.buf)) > INDIRECT1_BOUND + INODE_INDIRECT1_COUNT
    /\ last.out = prev.buf

RECURSIVE SumOfTotalBlocks(_)
\* the sum of total_blocks(size) over the inodes with the ids in S
SumOfTotalBlocks(S) ==
    IF S = {} THEN 0
    ELSE LET id == CHOOSE x \in S : TRUE
         IN  total_blocks(ViewSize(get_disk_inode_pos(efs, id))) + SumOfTotalBlocks(S \ {id})

\* C2: bitmap/usage parity.  On a formatted volume, after every create,
\* write_at and clear that returned, the number of set bits of the data bitmap
\* is the sum of total_blocks(size) over the inodes whose inode bit is set.
C2_Parity ==
    Running => Cardinality(DataBits) = SumOfTotalBlocks(InodeBits)

\* parity after a file that reached the double-indirect range was cleared while
\* a second file exists
C2_Witness ==
    /\ Running
    /\ last.op = "clear" /\ last.size_before > INDIRECT1_BOUND * BLOCK_SZ
    /\ Len(created) = 2
    /\ Cardinality(DataBits) = 1

\* the slots in use that hold the block id b
SlotsWith(slots, b) == {s \in slots : s[4] = b}

\* C3: no sharing and no leak.  Bit j of the data bitmap is set iff block
\* data_area_start + j is held by exactly one slot in use of exactly one inode
\* (a direct slot, indirect1, indirect2, or a slot of an index block), and no
\* block is held by two slots.
C3_NoSharingNoLeak ==
    Running =>
        LET slots == AllSlots
            bits  == DataBits
        IN  /\ \A j \in 0..(Bitmap_maximum(efs.data_bitmap) - 1) :
                   (j \in bits) <=>
                       (Cardinality(SlotsWith(slots, efs.data_area_start_block + j)) = 1)
            /\ \A s \in slots : Cardinality(SlotsWith(slots, s[4])) = 1

\* two files, one of them with blocks behind the indirect2 index
C3_Witness ==
    /\ Running
    /\ Len(created) = 2
    /\ \E s \in AllSlots : s[2] = "second level slot" /\ s[3] >= INODE_INDIRECT1_COUNT
    /\ \E s \in AllSlots : s[1] = created[2].inode_id /\ s[2] = "direct"

\* the last two calls were h.write_at(0, S) on a file of size 0 and then
\* h.clear(), and both returned
WroteThenCleared ==
    /\ last.op = "clear" /\ last.ok
    /\ prev.op = "write_at" /\ prev.ok
    /\ prev.h = last.h
    /\ prev.offset = 0 /\ prev.size_before = 0

\* C4: truncate.  write_at(0, S) on a file of size 0 followed by clear() leaves
\* the inode with size 0 and every block pointer 0 and the data bitmap as it was
\* before the write; the list clear released has total_blocks(old size) entries.
C4_Truncate ==
    WroteThenCleared =>
        /\ ViewSize(last.h) = 0
        /\ \A i \in 0..(INODE_DIRECT_COUNT - 1) : ViewInodeU32(last.h, OffDirect(i)) = 0
        /\ ViewInodeU32(last.h, OffIndirect1) = 0
        /\ ViewInodeU32(last.h, OffIndirect2) = 0
        /\ BitmapImage(efs.data_bitmap) = prev.bits_before
        /\ last.size_before = Len(prev.buf)
        /\ Len(last.out) = total_blocks(last.size_before)

\* a file that reached the second index block of the double-indirect range,
\* cleared
C4_Witness ==
    /\ WroteThenCleared
    /\ _data_blocks(Len(prev.buf)) > INDIRECT1_BOUND + INODE_INDIRECT1_COUNT
    /\ Len(last.out) = total_blocks(Len(prev.buf))

\* C5: listing order.  After the successful creates n1, ..., nk (their names
\* pairwise distinct), ls() returns [n1, ..., nk] in creation order and the
\* size of the directory is DIRENT_SZ * k.
C5_ListingOrder ==
    last.op = "ls" =>
        /\ last.ok
        /\ last.out = CreatedNames
        /\ ViewSize(Root) = DIRENT_SZ * Len(created)

\* ls after the create of a name that fills the name field: the directory has
\* the entry, and ls fails on it
C5_Diverges ==
    /\ last.op = "ls" /\ ~last.ok
    /\ fatal = "index out of bounds"
    /\ Len(created) = 2
    /\ ViewSize(Root) = DIRENT_SZ * Len(created)
    /\ Len(created[2].name) = NAME_LENGTH_LIMIT + 1

\* a step that is create(name) for a name the directory already holds
DuplicateCreate ==
    /\ calls'.updates = calls.updates + 1
    /\ last'.op = "create"
    /\ \E i \in 1..Len(created) : created[i].name = last'.name

\* C6: duplicate create.  create(name) for a name the directory already holds
\* returns None and changes nothing: no inode bit and no data bit is set, the
\* size and the entries of the directory stay as they are.
C6_DuplicateCreate ==
    [][DuplicateCreate =>
          /\ last'.ok /\ ~last'.found
          /\ created' = created
          /\ handles' = handles
          /\ InodeBits' = InodeBits
          /\ DataBits' = DataBits
          /\ ViewSize(Root)' = ViewSize(Root)
          /\ ViewFile(Root)' = ViewFile(Root)]_vars

\* the second create of a name that fills the name field does not return
C6_Diverges ==
    /\ last.op = "create" /\ ~last.ok
    /\ fatal = "index out of bounds"
    /\ \E i \in 1..Len(created) : created[i].name = last.name

\* C7: lookup.  find(name) after create(name) returned handle h returns a handle
\* at the position of h, which is get_disk_inode_pos of the inode number that
\* create allocated; find of a name that was never created returns None.
C7_Lookup ==
    last.op = "find" =>
        /\ last.ok
        /\ IF \E i \in 1..Len(created) : created[i].name = last.name
           THEN /\ last.found
                /\ \A i \in 1..Len(created) :
                       created[i].name = last.name =>
                           /\ last.h = created[i].h
                           /\ last.h = get_disk_inode_pos(efs, created[i].inode_id)
           ELSE ~last.found

\* find of a name that fills the name field, after its create returned a handle,
\* does not return
C7_Diverges ==
    /\ last.op = "find" /\ ~last.ok
    /\ fatal = "index out of bounds"
    /\ \E i \in 1..Len(created) : created[i].name = last.name

\* C11: after EasyFileSystem::create returned, open(device) returns: block 0 of the
\* device carries the magic, and the manager open builds has the inode bitmap
\* (start, blocks), the data bitmap (start, blocks), inode_area_start_block and
\* data_area_start_block of the manager create returned
C11_OpenRoundTrip ==
    (last.op = "open" /\ efs # NoFs) =>
        /\ last.ok
        /\ SuperBlock_is_valid(dev[0])
        /\ last.out.inode_bitmap = efs.inode_bitmap
        /\ last.out.data_bitmap = efs.data_bitmap
        /\ last.out.inode_area_start_block = efs.inode_area_start_block
        /\ last.out.data_area_start_block = efs.data_area_start_block

\* open right after create, and the manager has a data area behind a data bitmap
C11_Witness ==
    /\ last.op = "open" /\ last.ok
    /\ prev.op = "format" /\ prev.ok
    /\ last.out = efs
    /\ efs.data_bitmap.blocks > 0
    /\ efs.data_area_start_block = efs.data_bitmap.start_block_id + efs.data_bitmap.blocks

\* no resident entry is dirty, and every block of the device holds the latest
\* image that was stored to it through the cache
Durable ==
    /\ \A i \in 1..Len(queue) : ~queue[i].modified
    /\ dev = written

\* C14: whenever a public call has returned (the format, open, create, find, ls,
\* read_at, write_at, clear), and so between any two public calls, no cache entry
\* is dirty and the device holds what was last written through the cache
C14_Durability == fatal = "none" => Durable

\* a write_at that wrote more blocks than the cache holds has returned
C14_Witness ==
    /\ last.op = "write_at" /\ last.ok
    /\ _data_blocks(Len(last.buf)) > BLOCK_CACHE_SIZE
    /\ ViewFile(last.h) = last.buf
    /\ Durable

\* what read_at is to return on a file of s bytes
Clamped(offset, len, s) == IF offset < s THEN Min(len, s - offset) ELSE 0

\* C17: read clamping.  read_at(offset, buf) on a file of s bytes returns
\* min(|buf|, s - offset) if offset < s and 0 otherwise; that many bytes at the
\* front of buf are the bytes of the file from offset on, as they were when the
\* call was made, and the rest of buf is as the caller passed it
C17_ReadClamp ==
    [][ \A h \in handles :
          (last'.op = "read_at" /\ last'.h = h /\ calls'.queries = calls.queries + 1) =>
              /\ last'.ok
              /\ last'.ret = Clamped(last'.offset, Len(last'.buf), ViewSize(h))
              /\ Len(last'.out) = Len(last'.buf)
              /\ \A i \in 1..Len(last'.buf) :
                    last'.out[i] = IF i <= last'.ret THEN ViewFile(h)[last'.offset + i]
                                   ELSE last'.buf[i] ]_vars

\* a file of 3 bytes read at offset 1 into 10 bytes: 2 bytes, the second and the
\* third of the file, and the other 8 bytes of the buffer untouched
C17_Witness ==
    /\ last.op = "read_at" /\ last.ok
    /\ last.offset = 1 /\ Len(last.buf) = 10
    /\ last.size_before = 3 /\ ViewSize(last.h) = 3
    /\ last.ret = 2
    /\ SubSeq(last.out, 1, 2) = SubSeq(ViewFile(last.h), 2, 3)
    /\ SubSeq(last.out, 3, 10) = SubSeq(last.buf, 3, 10)

Max(a, b) == IF a > b THEN a ELSE b

\* the first size bytes of file, those in [offset, offset + len) left out
Outside(file, size, offset, len) ==
    [i \in 1..size |-> IF i <= offset \/ i > offset + len THEN file[i] ELSE 0]

CreateOf(h) == CHOOSE i \in 1..Len(created) : created[i].h = h

\* C19: frame of clear.  A clear that returns leaves the inode bitmap, the size
\* and the entries of the parent directory, and the size and the block map of
\* every other inode as they were; the name of the cleared file is still listed
\* by an ls that returns and still found, at the same inode, by a find that
\* returns
C19_ClearFrame ==
    /\ (last.op = "clear" /\ last.ok) => Frame(last.h) = last.before
    /\ (prev.op = "clear" /\ prev.ok /\ last.op = "ls" /\ last.ok) =>
           /\ \E i \in 1..Len(last.out) : last.out[i] = created[CreateOf(prev.h)].name
           /\ Len(last.out) = Len(created)
    /\ (prev.op = "clear" /\ prev.ok /\ last.op = "find" /\ last.ok
           /\ last.name = created[CreateOf(prev.h)].name) =>
           last.found /\ last.h = prev.h

\* a written file is cleared in a directory of two files: the bitmap bit of the
\* cleared inode stays set, and the directory keeps its two entries and its block
C19_Witness ==
    /\ last.op = "clear" /\ last.ok /\ last.size_before > 0 /\ ViewSize(last.h) = 0
    /\ Frame(last.h) = last.before
    /\ Cardinality(InodeBits) = 3
    /\ Cardinality(last.before.others) = 2
    /\ ViewSize(Root) = 2 * DIRENT_SZ
    /\ \E o \in last.before.others : o[1] = 0 /\ o[2] = 2 * DIRENT_SZ /\ o[3] # {}

\* the entries of a directory whose bytes are file
EntriesOf(file) ==
    [k \in 1..(Len(file) \div DIRENT_SZ) |->
        SubSeq(file, (k - 1) * DIRENT_SZ + 1, k * DIRENT_SZ)]

\* the entries of the root directory
DirEntries == EntriesOf(ViewFile(Root))

\* C20: directory entry well-formedness.  After any sequence of create calls,
\* every entry of the root directory has a NUL byte within its name field and an
\* inode number whose bit is set in the inode bitmap, and ls and find never fail
C20_WellFormed ==
    efs # NoFs =>
        /\ \A k \in 1..Len(DirEntries) :
              /\ DirEntry_name(DirEntries[k]).ok
              /\ DirEntry_inode_number(DirEntries[k]) \in InodeBits
        /\ last.op \in {"ls", "find"} => last.ok

\* create of a name that fills the name field returned a handle, and the entry
\* it stored has no NUL byte in its name field
C20_Diverges ==
    /\ fatal = "none"
    /\ last.op = "create" /\ last.ok /\ last.found
    /\ Len(last.name) = NAME_LENGTH_LIMIT + 1
    /\ \E k \in 1..Len(DirEntries) :
          /\ ~DirEntry_name(DirEntries[k]).ok
          /\ SubSeq(DirEntries[k], 1, NAME_LENGTH_LIMIT + 1) = last.name
          /\ DirEntry_inode_number(DirEntries[k]) = last.ret
          /\ last.ret \in InodeBits

\* the directory-only calls made on the handle of a file
OnFile == {"find on file", "create on file", "ls on file"}

\* C21: directory-only operations are type-checked.  find, create and ls called
\* on a handle whose inode has type File fail by the assertion on the type, and
\* the device is as it was
C21_TypeChecked ==
    [][ (last'.op \in OnFile /\ calls' # calls) =>
            /\ ~last'.ok
            /\ fatal' = "assert is_dir"
            /\ dev' = dev ]_vars

\* ls called on the handle of a file of 3 bytes returns: an empty list
C21_Diverges ==
    /\ last.op = "ls on file" /\ last.ok /\ fatal = "none"
    /\ ~DiskInode_is_dir(Machine, last.h)
    /\ ViewSize(last.h) = 3
    /\ last.out = << >>

\* the public inode operations
InodeOps == {"find", "create", "ls", "read_at", "write_at", "clear"}

\* C22: superblock immutability.  After EasyFileSystem::create has returned, a
\* public inode operation does not write block 0 to the device (it is written
\* only if its dirty flag was set), and the cached image of block 0 and the
\* device hold the superblock that create wrote
C22_SuperblockFrame ==
    (efs # NoFs /\ last.op \in InodeOps) =>
        /\ 0 \notin flushed
        /\ View(0) = dev[0]
        /\ SuperBlock_is_valid(dev[0])

\* write_at(0, empty buffer) on an empty file returned 0, and block 0 was written
\* to the device: the loop of DiskInode::write_at ran once on the block the
\* empty slot direct[0] names
C22_Diverges ==
    /\ last.op = "write_at" /\ last.ok /\ fatal = "none"
    /\ Len(last.buf) = 0 /\ last.offset = 0 /\ last.size_before = 0
    /\ last.ret = 0
    /\ ViewInodeU32(last.h, OffDirect(0)) = 0
    /\ 0 \in flushed
    /\ View(0) = dev[0]

\* C25: cache exhaustion is unreachable through the inode API.  No call of find,
\* create, ls, read_at, write_at or clear ends in "Run out of BlockCache!", and
\* the handles to cache entries that a call holds at once are at most 4 (the new
\* inode's block in create, the block of the inode, an index block and a block
\* under it), well below the 16 entries of the cache
C25_NoExhaustion ==
    /\ fatal # "Run out of BlockCache!"
    /\ peak <= 4
    /\ peak < BLOCK_CACHE_SIZE

\* a write through the double-indirect range on a full cache: entries were
\* evicted while the call held 3 handles at once
C25_Witness ==
    /\ last.op = "write_at" /\ last.ok
    /\ _data_blocks(Len(last.buf)) > INDIRECT1_BOUND
    /\ Len(queue) = BLOCK_CACHE_SIZE
    /\ peak = 3

----------------------------------------------------------------------------
(* The allocator by itself: Bitmap::alloc, Bitmap::dealloc and alloc_data on a
   volume that was formatted and whose bitmap was then filled to a level *)

\* inode bitmap blocks of the volume that is formatted
BitmapBlocks == 2

\* calls made on the bitmap
MaxBitmapCalls == 3

\* superblock, inode bitmap, inode area, one data bitmap block, data area
BitmapVolumeBlocks ==
    2 + BitmapBlocks
      + (BitmapBlocks * BLOCK_BITS * DiskInodeSize + BLOCK_SZ - 1) \div BLOCK_SZ
      + DataAreaBlocks

\* the two bitmaps of a volume
Which == {"inode", "data"}

BitmapOf(fs, which) == IF which = "inode" THEN fs.inode_bitmap ELSE fs.data_bitmap

\* the bits format leaves set: the root inode's
FormatHolds(which) == IF which = "inode" THEN {0} ELSE {}

\* how many bits are set when the calls start: around the end of the data area,
\* around the first word boundary, around the first block boundary, and up to
\* the last bit
Levels(bm, which) ==
    { l \in { 0, 1, DataAreaBlocks - 1, DataAreaBlocks, 63, 64, 65,
              BLOCK_BITS - 1, BLOCK_BITS, BLOCK_BITS + 1,
              Bitmap_maximum(bm) - 1, Bitmap_maximum(bm) } :
          l >= Cardinality(FormatHolds(which)) /\ l <= Bitmap_maximum(bm) }

\* the bit an allocation returned joins those held
Took(r, a, base) == [m |-> a.m, held |-> r.held \cup {a.v - base}]

\* one alloc_inode, or one alloc_data
TakeOne(r, fs, which) ==
    IF which = "inode" THEN Took(r, alloc_inode(r.m, fs, NoCtx), 0)
    ELSE Took(r, alloc_data(r.m, fs, NoCtx), fs.data_area_start_block)

\* n allocations in a row (the run is halved to keep the evaluation shallow)
RECURSIVE Refill(_, _, _, _)
Refill(r, fs, which, n) ==
    IF ~Ok(r.m) \/ n <= 0 THEN r
    ELSE IF n = 1 THEN TakeOne(r, fs, which)
    ELSE Refill(Refill(r, fs, which, n \div 2), fs, which, n - n \div 2)

Filled(r, fs, which) ==
    /\ queue = r.m.queue
    /\ dev = r.m.dev
    /\ written = r.m.written
    /\ flushed = {}
    /\ peak = 0
    /\ fatal = r.m.fatal
    /\ efs = fs
    /\ bitmap = BitmapOf(fs, which)
    /\ held = r.held
    /\ shared = {}
    /\ images = << >>
    /\ threads = << >>

\* r is what EasyFileSystem::create returned
Formatted(r, which, level) ==
    Filled(Refill([m |-> r.m, held |-> FormatHolds(which)], r.fs, which,
                  level - Cardinality(FormatHolds(which))),
           r.fs, which)

BitmapLayout == Manager(Layout(BitmapVolumeBlocks, BitmapBlocks, BLOCK_SZ, DiskInodeSize))

\* a volume formatted with BitmapBlocks inode bitmap blocks, one of its bitmaps
\* filled to a level by alloc_inode or alloc_data
InitBitmap ==
    /\ \E fill \in DeviceFill, which \in Which :
          \E level \in Levels(BitmapOf(BitmapLayout, which), which) :
              Formatted(EasyFileSystem_create(Blank(BitmapVolumeBlocks, fill),
                                              BitmapVolumeBlocks, BitmapBlocks),
                        which, level)
    /\ handles = {}
    /\ created = << >>
    /\ last = NoCall
    /\ prev = NoCall
    /\ calls = NoCalls

\* the record of a call on the bitmap: the bit it is about, the bits that were
\* held (returned by an alloc and not deallocated since) and those that were set
\* when it was made
BitCall(op, bit) ==
    [op |-> op, bit |-> bit, ok |-> TRUE, ret |-> bit,
     held_before |-> held, bits_before |-> Bits(bitmap)]

BitmapCall(freed) ==
    /\ calls.updates < MaxBitmapCalls
    /\ calls' = [calls EXCEPT !.updates = @ + 1, !.frees = @ + freed]

BitmapAllocDone(r) ==
    /\ Commit(r.m)
    /\ held' = IF Ok(r.m) /\ r.v # NoBit THEN held \cup {r.v} ELSE held
    /\ last' = [BitCall("alloc", r.v) EXCEPT !.ok = Ok(r.m)]

\* bitmap.alloc(device)
BitmapAlloc ==
    /\ Running /\ BitmapCall(0)
    /\ BitmapAllocDone(Bitmap_alloc(Machine, bitmap, NoCtx))
    /\ prev' = last
    /\ UNCHANGED <<efs, handles, created, bitmap, shared, images, threads>>

\* the bits that dealloc is tried on: fixed ones around the word and block
\* boundaries, set or not, and the highest one held
DeallocChoices ==
    { b \in { 0, 63, 64, BLOCK_BITS - 1, BLOCK_BITS, Bitmap_maximum(bitmap) - 1 } :
          b < Bitmap_maximum(bitmap) }
    \cup { b \in held : \A x \in held : x <= b }

BitmapDeallocDone(bit, m) ==
    /\ Commit(m)
    /\ held' = IF Ok(m) THEN held \ {bit} ELSE held
    /\ last' = [BitCall("dealloc", bit) EXCEPT !.ok = Ok(m)]

\* bitmap.dealloc(device, bit)
BitmapDealloc(bit) ==
    /\ Running /\ BitmapCall(1)
    /\ BitmapDeallocDone(bit, Bitmap_dealloc(Machine, bitmap, bit, NoCtx))
    /\ prev' = last
    /\ UNCHANGED <<efs, handles, created, bitmap, shared, images, threads>>

AllocDataDone(r) ==
    /\ Commit(r.m)
    /\ held' = IF Ok(r.m) THEN held \cup {r.v - efs.data_area_start_block} ELSE held
    /\ last' = [BitCall("alloc_data", r.v - efs.data_area_start_block) EXCEPT
                   !.ok = Ok(r.m), !.ret = r.v]

\* efs.alloc_data(), when the bitmap is the data bitmap
AllocData ==
    /\ Running /\ bitmap = efs.data_bitmap /\ BitmapCall(0)
    /\ AllocDataDone(alloc_data(Machine, efs, NoCtx))
    /\ prev' = last
    /\ UNCHANGED <<efs, handles, created, bitmap, shared, images, threads>>

NextBitmap ==
    \/ BitmapAlloc
    \/ \E bit \in DeallocChoices : BitmapDealloc(bit)
    \/ AllocData

SpecBitmap == InitBitmap /\ [][NextBitmap]_vars

\* an allocation returned a bit
Allocated == last.op \in {"alloc", "alloc_data"} /\ last.ok /\ last.bit # NoBit

\* C8: no double allocation.  Over the sequences of alloc and dealloc on one
\* bitmap, alloc never returns a bit index that an earlier alloc returned and
\* that was not deallocated since.
C8_NoDoubleAlloc ==
    Allocated => last.bit \notin last.held_before

\* a bit past the first word that was deallocated is returned again by the
\* next alloc
C8_Witness ==
    /\ last.op = "alloc" /\ Allocated
    /\ prev.op = "dealloc" /\ prev.ok
    /\ last.bit = prev.bit /\ last.bit >= 64
    /\ last.bit \notin last.held_before

\* the bits of the bitmap that were clear when the last call was made
ClearBefore == (0..(Bitmap_maximum(bitmap) - 1)) \ last.bits_before

\* C9: lowest free bit.  When some bit is clear, alloc returns the smallest
\* clear bit index (block, then word, then bit) and sets that bit and no other;
\* on a freshly formatted volume the alloc_data calls made before anything is
\* freed return data_area_start, data_area_start + 1, ... in this order.
C9_LowestFreeBit ==
    /\ (last.op = "alloc" /\ last.ok /\ ClearBefore # {}) =>
           /\ last.ret \in ClearBefore
           /\ \A b \in ClearBefore : last.ret <= b
           /\ Bits(bitmap) = last.bits_before \cup {last.ret}
    /\ (last.op = "alloc_data" /\ last.ok /\ calls.frees = 0) =>
           /\ last.ret = efs.data_area_start_block + Cardinality(last.held_before)
           /\ Bits(bitmap) = last.bits_before \cup {last.bit}
           /\ (prev.op = "alloc_data" /\ prev.ok) => last.ret = prev.ret + 1

\* alloc returned the last bit of the first word, and the alloc_data after it
\* the block of the first bit of the second word
C9_Witness ==
    /\ prev.op = "alloc" /\ prev.ok /\ prev.ret = 63
    /\ last.op = "alloc_data" /\ last.ok /\ calls.frees = 0
    /\ last.ret = efs.data_area_start_block + 64

\* total_blocks and data_area_blocks, as the superblock of the volume holds them
VolumeTotalBlocks == GetU32(View(0), 4)

VolumeDataAreaBlocks == GetU32(View(0), 20)

\* C28: allocated data blocks lie inside the data area.  Every block id that
\* alloc_data returns, until the allocator reports exhaustion, satisfies
\* data_area_start <= id < data_area_start + data_area_blocks, and so
\* id < total_blocks; the data bitmap hands out no bit index >= data_area_blocks.
C28_InsideDataArea ==
    (last.op = "alloc_data" /\ last.ok) =>
        /\ efs.data_area_start_block <= last.ret
        /\ last.ret < efs.data_area_start_block + VolumeDataAreaBlocks
        /\ last.ret < VolumeTotalBlocks
        /\ last.bit < VolumeDataAreaBlocks

\* every block of the data area is taken, nothing was freed, and alloc_data
\* returns, without reporting exhaustion, the id that follows the last block
\* of the device
C28_Diverges ==
    /\ last.op = "alloc_data" /\ last.ok /\ calls.frees = 0
    /\ last.held_before = 0..(VolumeDataAreaBlocks - 1)
    /\ last.bit = VolumeDataAreaBlocks
    /\ last.ret = efs.data_area_start_block + VolumeDataAreaBlocks
    /\ last.ret = VolumeTotalBlocks
    /\ last.ret \notin DOMAIN dev
    /\ VolumeDataAreaBlocks < Bitmap_maximum(efs.data_bitmap)

----------------------------------------------------------------------------
(* The region arithmetic of EasyFileSystem::create at the block and inode sizes
   of the build *)

\* u64 words of a BitmapBlock, which is one block
FullBlockDWords == 64

\* INODE_DIRECT_COUNT of the build
FullDirectCount == 28

\* bytes of a block: size_of::<BitmapBlock>()
FullBlockSz == 8 * FullBlockDWords

\* size_of::<DiskInode>() of the build
FullDiskInodeSize == 4 * (FullDirectCount + 4)

\* the volumes that are laid out have 4096 - LayoutSpan to 4096 + LayoutSpan
\* blocks
LayoutSpan == 60

LayoutTotals == (4096 - LayoutSpan)..(4096 + LayoutSpan)

LayoutCall(total, inode_bitmap_blocks) ==
    [op |-> "layout", total |-> total, inode_bitmap_blocks |-> inode_bitmap_blocks,
     ok |-> TRUE, found |-> FALSE, out |-> << >>]

\* the arguments of one EasyFileSystem::create
InitLayout ==
    /\ queue = << >>
    /\ dev = << >>
    /\ written = << >>
    /\ flushed = {}
    /\ peak = 0
    /\ fatal = "none"
    /\ efs = NoFs
    /\ handles = {}
    /\ created = << >>
    /\ \E total \in LayoutTotals, inode_bitmap_blocks \in 1..2 :
           last = LayoutCall(total, inode_bitmap_blocks)
    /\ prev = NoCall
    /\ calls = NoCalls
    /\ bitmap = NoFs.data_bitmap
    /\ held = {}
    /\ shared = {}
    /\ images = << >>
    /\ threads = << >>

\* the arithmetic at the head of EasyFileSystem::create
CreateLayout ==
    /\ last.op = "layout" /\ ~last.found
    /\ last' = [last EXCEPT !.found = TRUE,
                            !.out = Layout(last.total, last.inode_bitmap_blocks,
                                           FullBlockSz, FullDiskInodeSize)]
    /\ UNCHANGED <<queue, dev, fatal, efs, handles, created, prev, calls, bitmap, held,
                   written, shared, images, threads, flushed, peak>>

NextLayout == CreateLayout

SpecLayout == InitLayout /\ [][NextLayout]_vars

\* create laid out a volume of 4096 blocks with one inode bitmap block
Laid4096 ==
    /\ last.op = "layout" /\ last.found
    /\ last.total = 4096 /\ last.inode_bitmap_blocks = 1

\* C10: format layout arithmetic, as the code computes it.  create with
\* total_blocks = 4096 and inode_bitmap_blocks = 1 (blocks of 512 bytes, inodes
\* of 128 bytes) gives inode_area_blocks = 1024, data_bitmap_blocks = 1,
\* data_area_start = 1027 and data_area_blocks = 3069: the data bitmap block is
\* taken out of the 3070 blocks that follow the inode area.
C10_FormatLayout ==
    Laid4096 => /\ FullBlockSz = 512 /\ FullDiskInodeSize = 128
                /\ last.out.inode_area_blocks = 1024
                /\ last.out.data_bitmap_blocks = 1
                /\ last.out.data_area_blocks = 3069
                /\ last.out.data_area_start_block = 1027
                /\ last.out.data_area_start_block + last.out.data_area_blocks = 4096

\* C10 as the specification states it: data_area_blocks = 3070
C10_AsStated ==
    Laid4096 => /\ last.out.inode_area_blocks = 1024
                /\ last.out.data_bitmap_blocks = 1
                /\ last.out.data_area_blocks = 3070
                /\ last.out.data_area_start_block = 1027

\* the volume of the claim was laid out, and its regions fill the 4096 blocks
C10_Witness ==
    /\ Laid4096
    /\ last.out.data_total_blocks = 3070
    /\ 1 + last.out.inode_bitmap_blocks + last.out.inode_area_blocks
         + last.out.data_bitmap_blocks + last.out.data_area_blocks = 4096

----------------------------------------------------------------------------
(* The block cache by itself: callers take handles to blocks, keep them, write
   through them, drop them, and sync the cache.  A handle is [owner, block_id,
   image]: image tells which load of the block the handle refers to. *)

\* callers that hold handles
MaxHolders == 2

\* calls made on the cache
MaxCacheCalls == 4

Holders == 1..MaxHolders

\* blocks of the device: two more than the cache can hold
CacheBlocks == BLOCK_CACHE_SIZE + 2

\* the blocks that are asked for: the two oldest entries of a full cache and the
\* two blocks that are never resident at first
Probes == {0, 1, BLOCK_CACHE_SIZE, BLOCK_CACHE_SIZE + 1}

\* how many blocks were loaded, in the order of their ids, before the first call
WarmLevels == {0, BLOCK_CACHE_SIZE - 1, BLOCK_CACHE_SIZE}

\* get_block_cache for the blocks i..n-1, each handle dropped at once
RECURSIVE Warm(_, _, _)
Warm(m, i, n) ==
    IF i >= n THEN m ELSE Warm(BlockCacheManager_get_block_cache(m, i, {}), i + 1, n)

\* Arc::strong_count of the image of block id that was loaded last: the Arc of
\* the queue and the handles to that image
StrongCount(id) ==
    1 + Cardinality({h \in shared : h.block_id = id /\ h.image = images[id]})

\* the blocks whose current image a caller holds a handle to
Pinned == {id \in DOMAIN images : StrongCount(id) > 1}

InitCache ==
    /\ \E level \in WarmLevels :
          /\ queue = Warm(Blank(CacheBlocks, 0), 0, level).queue
          /\ dev = Warm(Blank(CacheBlocks, 0), 0, level).dev
          /\ fatal = Warm(Blank(CacheBlocks, 0), 0, level).fatal
          /\ written = Warm(Blank(CacheBlocks, 0), 0, level).written
          /\ flushed = {}
          /\ peak = 0
          /\ images = [b \in 0..(CacheBlocks - 1) |-> IF b < level THEN 1 ELSE 0]
    /\ shared = {}
    /\ efs = NoFs
    /\ handles = {}
    /\ created = << >>
    /\ last = NoCall
    /\ prev = NoCall
    /\ calls = NoCalls
    /\ bitmap = NoFs.data_bitmap
    /\ held = {}
    /\ threads = << >>

CacheCall ==
    /\ fatal = "none"
    /\ calls.updates < MaxCacheCalls
    /\ calls' = [calls EXCEPT !.updates = @ + 1]
    /\ prev' = last
    /\ UNCHANGED <<efs, handles, created, bitmap, held, threads>>

CacheGetDone(o, b, m) ==
    /\ Commit(m)
    /\ images' = IF Ok(m) /\ ~Resident(queue, b) THEN [images EXCEPT ![b] = @ + 1]
                 ELSE images
    /\ shared' = IF Ok(m)
                 THEN shared \cup {[owner |-> o, block_id |-> b, image |-> images'[b]]}
                 ELSE shared
    /\ last' = [Call("get_block_cache", NoHandle, << >>, b, << >>) EXCEPT !.ok = Ok(m)]

\* let cache = get_block_cache(b, device), by the caller o, who keeps the handle
CacheGet(o, b) ==
    /\ CacheCall
    /\ ~ \E h \in shared : h.owner = o /\ h.block_id = b
    /\ CacheGetDone(o, b, BlockCacheManager_get_block_cache(Machine, b, Pinned))

\* the caller drops the handle h; the queue keeps its own Arc to a resident image
CacheDrop(h) ==
    /\ CacheCall
    /\ shared' = shared \ {h}
    /\ last' = Call("drop", NoHandle, << >>, h.block_id, << >>)
    /\ UNCHANGED <<queue, dev, fatal, written, images, flushed, peak>>

\* cache.lock().modify(0, |byte: &mut u8| *byte = v) through the handle h
CacheModify(h, v) ==
    /\ CacheCall
    /\ Resident(queue, h.block_id) /\ h.image = images[h.block_id]
    /\ Commit(Store(get_mut(Machine, h.block_id), h.block_id, 0, <<v>>))
    /\ last' = Call("modify", NoHandle, << >>, h.block_id, <<v>>)
    /\ UNCHANGED <<shared, images>>

\* block_cache_sync_all()
CacheSyncAll ==
    /\ CacheCall
    /\ Commit(block_cache_sync_all(Machine))
    /\ last' = Call("sync_all", NoHandle, << >>, 0, << >>)
    /\ UNCHANGED <<shared, images>>

NextCache ==
    \/ \E o \in Holders, b \in Probes : CacheGet(o, b)
    \/ \E h \in shared : CacheDrop(h)
    \/ \E h \in shared : CacheModify(h, calls.updates + 1)
    \/ CacheSyncAll

SpecCache == InitCache /\ [][NextCache]_vars

\* C12: the queue holds at most one entry per block id; no caller holds a handle
\* to an image of a block other than the one that is resident, so the handles to
\* one block id all refer to the same image
C12_SingleImage ==
    /\ \A i, j \in 1..Len(queue) : queue[i].block_id = queue[j].block_id => i = j
    /\ \A h \in shared : Resident(queue, h.block_id) => h.image = images[h.block_id]
    /\ \A h1, h2 \in shared : h1.block_id = h2.block_id => h1.image = h2.image

\* block 0 was evicted and loaded again, and two callers hold a handle to it
C12_Witness ==
    /\ Len(queue) = BLOCK_CACHE_SIZE
    /\ images[0] = 2 /\ Resident(queue, 0)
    /\ \E h1, h2 \in shared :
          h1.owner # h2.owner /\ h1.block_id = 0 /\ h2.block_id = 0 /\ h1.image = 2

\* C13: no step takes from the queue an entry that a caller holds a handle to;
\* an entry that leaves the queue had a reference count of exactly 1
C13_Pinning ==
    [][/\ \A id \in Pinned :
              Resident(queue, id) => Resident(queue', id) /\ images'[id] = images[id]
       /\ \A i \in 1..Len(queue) :
              ~Resident(queue', queue[i].block_id) => StrongCount(queue[i].block_id) = 1]_vars

\* the cache was full with block 0 at its head and a handle to block 0 held; a
\* block was asked for that was not resident, and block 1 went in the place of 0
C13_Witness ==
    /\ last.op = "get_block_cache" /\ last.ok
    /\ Len(queue) = BLOCK_CACHE_SIZE
    /\ queue[1].block_id = 0 /\ 0 \in Pinned
    /\ images[1] = 1 /\ ~Resident(queue, 1)
    /\ Resident(queue, last.offset) /\ images[last.offset] = 1 /\ last.offset >= BLOCK_CACHE_SIZE

\* a step that is a get_block_cache that returned
GetStep == calls'.updates = calls.updates + 1 /\ last'.op = "get_block_cache" /\ last'.ok

\* the block ids of the entries of q
Ids(q) == {q[i].block_id : i \in 1..Len(q)}

\* C23: cache capacity.  The queue never holds more than 16 entries; a miss with
\* fewer than 16 entries appends the new entry at the tail and takes nothing
\* out; a miss with 16 entries takes exactly one entry out and appends
C23_Capacity ==
    [][/\ Len(queue) <= BLOCK_CACHE_SIZE /\ Len(queue') <= BLOCK_CACHE_SIZE
       /\ (GetStep /\ ~Resident(queue, last'.offset)) =>
              /\ queue'[Len(queue')].block_id = last'.offset
              /\ IF Len(queue) < BLOCK_CACHE_SIZE
                 THEN /\ Len(queue') = Len(queue) + 1
                      /\ SubSeq(queue', 1, Len(queue)) = queue
                 ELSE /\ Len(queue') = BLOCK_CACHE_SIZE
                      /\ Cardinality(Ids(queue) \ Ids(queue')) = 1
                      /\ Cardinality(Ids(queue') \ Ids(queue)) = 1]_vars

\* both misses happened: one that brought the queue from 15 to 16 entries, and
\* then one on the full queue
C23_Witness ==
    /\ last.op = "get_block_cache" /\ last.ok
    /\ prev.op = "get_block_cache" /\ prev.ok
    /\ prev.offset # last.offset
    /\ images[prev.offset] = 1 /\ images[last.offset] = 1
    /\ images[BLOCK_CACHE_SIZE - 1] = 0
    /\ Len(queue) = BLOCK_CACHE_SIZE
    /\ calls.updates = 2
    /\ queue[BLOCK_CACHE_SIZE].block_id = last.offset
    /\ queue[BLOCK_CACHE_SIZE - 1].block_id = prev.offset

\* the place in the queue of the entry that a miss at capacity takes out
Victim ==
    CHOOSE i \in 1..Len(queue) :
        /\ StrongCount(queue[i].block_id) = 1
        /\ \A j \in 1..(i - 1) : StrongCount(queue[j].block_id) > 1

\* C24: FIFO eviction.  A miss at capacity takes out the entry closest to the
\* head of the queue among those with reference count 1, and the other entries
\* keep their order in front of the new entry; a hit leaves the queue as it is
C24_Fifo ==
    [][GetStep =>
          IF Resident(queue, last'.offset) THEN queue' = queue
          ELSE IF Len(queue) < BLOCK_CACHE_SIZE
               THEN SubSeq(queue', 1, Len(queue')  - 1) = queue
          ELSE /\ \E i \in 1..Len(queue) : StrongCount(queue[i].block_id) = 1
               /\ SubSeq(queue', 1, Len(queue') - 1) = Drain(queue, Victim)]_vars

\* the full cache took block 1 out, the second of the queue, because a handle to
\* block 0 at its head is held; blocks 0, 2, 3, ... kept their order; and then
\* a hit on block 0 left the queue alone
C24_Witness ==
    /\ last.op = "get_block_cache" /\ last.ok /\ last.offset = 0
    /\ prev.op = "get_block_cache" /\ prev.ok /\ prev.offset >= BLOCK_CACHE_SIZE
    /\ Len(queue) = BLOCK_CACHE_SIZE
    /\ ~Resident(queue, 1)
    /\ \A i \in 1..(BLOCK_CACHE_SIZE - 1) :
          queue[i].block_id = IF i = 1 THEN 0 ELSE i
    /\ queue[BLOCK_CACHE_SIZE].block_id = prev.offset

\* what a read of block b through the cache observes
CacheView(b) == IF Resident(queue, b) THEN Image(Machine, b) ELSE dev[b]

\* C26: cache transparency.  Whatever was evicted in between, a read of a block
\* through the cache observes the bytes of the most recent modify of the block,
\* or what the device held at first if it was never modified; an entry that was
\* dirty when it left the queue is on the device
C26_Transparency ==
    /\ \A b \in DOMAIN dev : CacheView(b) = written[b]
    /\ \A b \in flushed : dev[b] = written[b]

\* block 0 was modified through a handle, the handle was dropped, and a miss on
\* the full cache took block 0 out: the device holds the modified byte
C26_Witness ==
    /\ last.op = "get_block_cache" /\ last.ok
    /\ prev.op = "drop" /\ prev.offset = 0
    /\ ~Resident(queue, 0)
    /\ flushed = {0}
    /\ dev[0][1] # 0
    /\ dev[0] = written[0]

----------------------------------------------------------------------------
(* Threads.  Each thread makes one public call on the same filesystem.  A call
   is cut where it takes a lock: the manager's lock (self.fs.lock()), the lock
   of the cache manager (BLOCK_CACHE_MANAGER.lock()) and the lock of a cache
   entry (cache.lock()).  The locks are spin::Mutex: lock() returns when no
   thread holds the mutex, the caller included. *)

\* threads that call the filesystem
MaxThreads == 2

Threads == 1..MaxThreads

\* the volume the threads share: formatted, with the file "a" of 3 bytes
StartFs == Manager(Layout(VolumeBlocks, 1, BLOCK_SZ, DiskInodeSize))

StartFormat == EasyFileSystem_create(Blank(VolumeBlocks, 0), VolumeBlocks, 1)

StartFile == Inode_create(StartFormat.m, StartFs, root_inode(StartFs), <<97>>)

Start == Inode_write_at(StartFile.m, StartFs, StartFile.h, 0, Payload(3, 1))

ThreadCall(op, name, offset, buf) ==
    [op |-> op, name |-> name, offset |-> offset, buf |-> buf]

\* the calls a thread chooses from: create of the name that exists and of a new
\* name, find, ls, read_at, a write_at that grows the file into a second block,
\* clear, and root_inode
ThreadCalls ==
    { ThreadCall("create", <<97>>, 0, << >>),
      ThreadCall("create", <<97, 98>>, 0, << >>),
      ThreadCall("find", <<97, 98>>, 0, << >>),
      ThreadCall("ls", << >>, 0, << >>),
      ThreadCall("read_at", << >>, 1, [i \in 1..10 |-> 255]),
      ThreadCall("write_at", << >>, 2, Payload(BLOCK_SZ, 2)),
      ThreadCall("clear", << >>, 0, << >>),
      ThreadCall("root_inode", << >>, 0, << >>) }

\* the inode a call is made on: the file "a" for read_at, write_at and clear, the
\* root directory for the others
Self(call) ==
    IF call.op \in {"read_at", "write_at", "clear"} THEN StartFile.h ELSE root_inode(StartFs)

\* what a call returned: Some/None and the handle, a number, a list or buffer
Result(found, h, v, out) == [found |-> found, h |-> h, v |-> v, out |-> out]

NoResult == Result(FALSE, NoHandle, 0, << >>)

\* a thread: where it is, its call, what its closure returned, what the call
\* returned, and the locks it holds
IdleThread ==
    [pc |-> "idle", call |-> ThreadCall("none", << >>, 0, << >>),
     tmp |-> NoResult, ret |-> NoResult,
     fs |-> FALSE, manager |-> FALSE, entries |-> {}]

\* the manager's lock is taken whoever holds it
FsFree_whoever_holds_it == TRUE

\* self.fs.lock() and efs.lock() return when no thread holds the manager's lock
FsFree == \A t \in Threads : ~threads[t].fs

\* BLOCK_CACHE_MANAGER.lock()
ManagerFree == \A t \in Threads : ~threads[t].manager

\* cache.lock() on the entry of block id
EntryFree(id) == \A t \in Threads : id \notin threads[t].entries

\* the guard of the entry stays alive
Unlocked_keeps_guard(th, id) == th

\* the MutexGuard of cache.lock() is dropped at the end of its statement
Unlocked(th, id) == [th EXCEPT !.entries = @ \ {id}]

\* the guard of the first efs.lock() is kept in a variable
AfterRoot1_keeps_guard(th) == [th EXCEPT !.pc = "root2", !.fs = TRUE]

\* efs.lock().block_device.clone(): the guard is a temporary of the statement
AfterRoot1(th) == [th EXCEPT !.pc = "root2"]

\* the function returns: the guard of self.fs.lock() is dropped
Returned(th, ret) == [th EXCEPT !.pc = "done", !.ret = ret, !.fs = FALSE]

Outcome(m, ret) == [m |-> m, ret |-> ret]

CreateOutcome(r) ==
    Outcome(r.m, IF r.found THEN Result(TRUE, r.h, r.inode_id, << >>) ELSE NoResult)

FindOutcome(r) == Outcome(r.m, Result(r.found, r.h, 0, << >>))

LsOutcome(r) == Outcome(r.m, Result(FALSE, NoHandle, 0, r.v))

ReadOutcome(r) == Outcome(r.m, Result(FALSE, NoHandle, r.v, r.buf))

WriteOutcome(r) == Outcome(r.m, Result(FALSE, NoHandle, r.v, << >>))

ClearOutcome(r) == Outcome(r.m, Result(FALSE, NoHandle, 0, r.v))

\* a public call made alone, from its first statement to its return: [m, ret]
Whole(m, fs, call) ==
    CASE call.op = "create" ->
             CreateOutcome(Inode_create(m, fs, Self(call), call.name))
      [] call.op = "find" -> FindOutcome(Inode_find(m, fs, Self(call), call.name))
      [] call.op = "ls" -> LsOutcome(Inode_ls(m, Self(call)))
      [] call.op = "read_at" ->
             ReadOutcome(Inode_read_at(m, Self(call), call.offset, call.buf))
      [] call.op = "write_at" ->
             WriteOutcome(Inode_write_at(m, fs, Self(call), call.offset, call.buf))
      [] call.op = "clear" -> ClearOutcome(Inode_clear(m, fs, Self(call)))
      [] call.op = "root_inode" -> Outcome(m, Result(TRUE, root_inode(fs), 0, << >>))

\* the lock a thread is about to take is held
Blocked(t) ==
    CASE threads[t].pc \in {"lock_fs", "root1", "root2"} -> ~FsFree
      [] threads[t].pc \in {"dup", "read", "inode"} ->
             ~ManagerFree \/ ~EntryFree(Self(threads[t].call).block_id)
      [] threads[t].pc \in {"body", "sync"} -> ~ManagerFree
      [] threads[t].pc = "sync_entries" ->
             \E i \in 1..Len(queue) : ~EntryFree(queue[i].block_id)
      [] OTHER -> FALSE

\* the thread is inside a call
Active(t) == threads[t].pc \notin {"idle", "done"}

InitThreads ==
    /\ queue = Start.m.queue
    /\ dev = Start.m.dev
    /\ fatal = Start.m.fatal
    /\ written = Start.m.written
    /\ flushed = {}
    /\ peak = 0
    /\ efs = StartFs
    /\ handles = {StartFile.h}
    /\ created = << [name |-> <<97>>, h |-> StartFile.h, inode_id |-> StartFile.inode_id] >>
    /\ last = NoCall
    /\ prev = NoCall
    /\ calls = NoCalls
    /\ bitmap = NoFs.data_bitmap
    /\ held = {}
    /\ shared = {}
    /\ images = << >>
    /\ threads = [t \in Threads |-> IdleThread]

\* the step of thread t that leaves the machine m and the thread th
ThreadStep(t, th, m) ==
    /\ Commit(m)
    /\ threads' = [threads EXCEPT ![t] = th]
    /\ UNCHANGED <<efs, handles, created, last, prev, calls, bitmap, held, shared, images>>

At(t, pc) == fatal = "none" /\ threads[t].pc = pc /\ ~Blocked(t)

\* the thread calls: a public inode call starts with self.fs.lock(), root_inode
\* with the first efs.lock()
Begin(t, call) ==
    /\ At(t, "idle")
    /\ ThreadStep(t, [IdleThread EXCEPT
                         !.call = call,
                         !.pc = IF call.op = "root_inode" THEN "root1" ELSE "lock_fs"],
                  Machine)

\* let fs = self.fs.lock()
LockFs(t) ==
    /\ At(t, "lock_fs")
    /\ ThreadStep(t, [threads[t] EXCEPT
                         !.fs = TRUE,
                         !.pc = CASE threads[t].call.op = "create" -> "dup"
                                  [] threads[t].call.op \in {"write_at", "clear"} -> "inode"
                                  [] OTHER -> "read"],
                  Machine)

DupDone(t, r) ==
    ThreadStep(t, IF Ok(r.m) /\ r.v # NoInode THEN Returned(threads[t], NoResult)
                  ELSE [threads[t] EXCEPT !.pc = "inode"],
               r.m)

\* create: if self.read_disk_inode(op).is_some() { return None; }
Dup(t) ==
    /\ At(t, "dup")
    /\ DupDone(t, find_inode_id(read_disk_inode(Machine, Self(threads[t].call)),
                                Self(threads[t].call), threads[t].call.name,
                                Hold(NoCtx, Self(threads[t].call).block_id)))

\* create: alloc_inode, the new inode initialized, and the handle and the lock
\* of modify_disk_inode on the directory: [m, v]
Linked(a, fs, self) ==
    [m |-> modify_disk_inode(InitFile(a.m, get_disk_inode_pos(fs, a.v)), self,
                             Pin(NoCtx, get_disk_inode_pos(fs, a.v).block_id)),
     v |-> a.v]

LockInodeDone(t, r) ==
    ThreadStep(t, [threads[t] EXCEPT
                      !.pc = "body",
                      !.tmp = Result(FALSE, NoHandle, r.v, << >>),
                      !.entries = @ \cup {Self(threads[t].call).block_id}],
               r.m)

\* modify_disk_inode up to cache.lock(): the thread holds the lock of the entry of
\* the inode's block when its closure starts
LockInode(t) ==
    /\ At(t, "inode")
    /\ LockInodeDone(t, IF threads[t].call.op = "create"
                        THEN Linked(alloc_inode(Machine, efs, NoCtx), efs,
                                    Self(threads[t].call))
                        ELSE [m |-> modify_disk_inode(Machine, Self(threads[t].call), NoCtx),
                              v |-> 0])

\* the closure of clear: [m, v]
ClearClosure(cs, size, fs, c) ==
    [m |-> DeallocAll(AssertLen(cs, size), fs, cs.v, c), v |-> cs.v]

\* the closure of modify_disk_inode in create, write_at or clear: [m, ret]
Closure(m, fs, self, call, tmp) ==
    CASE call.op = "create" ->
             Outcome(AddEntry(m, fs, self, call.name, tmp.v,
                              Hold(Pin(NoCtx, get_disk_inode_pos(fs, tmp.v).block_id),
                                   self.block_id)),
                     Result(TRUE, get_disk_inode_pos(fs, tmp.v), tmp.v, << >>))
      [] call.op = "write_at" ->
             WriteOutcome(DiskInode_write_at(
                 Inode_increase_size(m, fs, self, call.offset + Len(call.buf),
                                     Hold(NoCtx, self.block_id)),
                 self, call.offset, call.buf, Hold(NoCtx, self.block_id)))
      [] call.op = "clear" ->
             ClearOutcome(ClearClosure(
                 DiskInode_clear_size(m, self, Hold(NoCtx, self.block_id)),
                 DiskInode_size(m, self), fs, Hold(NoCtx, self.block_id)))

BodyDone(t, r) ==
    ThreadStep(t, Unlocked([threads[t] EXCEPT !.pc = "sync", !.tmp = r.ret],
                           Self(threads[t].call).block_id),
               r.m)

\* the closure runs and the entry's lock is released
Body(t) ==
    /\ At(t, "body")
    /\ BodyDone(t, Closure(Machine, efs, Self(threads[t].call), threads[t].call,
                           threads[t].tmp))

\* block_cache_sync_all: let manager = BLOCK_CACHE_MANAGER.lock()
SyncLock(t) ==
    /\ At(t, "sync")
    /\ ThreadStep(t, [threads[t] EXCEPT !.pc = "sync_entries", !.manager = TRUE], Machine)

\* block_cache_sync_all: cache.lock().sync() for every entry; then the call returns
SyncEntries(t) ==
    /\ At(t, "sync_entries")
    /\ ThreadStep(t, Returned([threads[t] EXCEPT !.manager = FALSE], threads[t].tmp),
                  block_cache_sync_all(Machine))

ReadDone(t, r) == ThreadStep(t, Returned(threads[t], r.ret), r.m)

\* find, ls, read_at: read_disk_inode with its closure, and the return
Read(t) ==
    /\ At(t, "read")
    /\ ReadDone(t, Whole(Machine, efs, threads[t].call))

\* root_inode: efs.lock().block_device.clone()
Root1(t) ==
    /\ At(t, "root1")
    /\ ThreadStep(t, AfterRoot1(threads[t]), Machine)

\* root_inode: efs.lock().get_disk_inode_pos(0), and Inode::new
Root2(t) ==
    /\ At(t, "root2")
    /\ ThreadStep(t, Returned(threads[t], Result(TRUE, root_inode(efs), 0, << >>)), Machine)

NextThreads ==
    \E t \in Threads :
        \/ \E call \in ThreadCalls : Begin(t, call)
        \/ LockFs(t)
        \/ Dup(t)
        \/ LockInode(t)
        \/ Body(t)
        \/ SyncLock(t)
        \/ SyncEntries(t)
        \/ Read(t)
        \/ Root1(t)
        \/ Root2(t)

SpecThreads == InitThreads /\ [][NextThreads]_vars

\* the threads that have returned, in some order
Orders(D) ==
    { p \in [1..Cardinality(D) -> D] : \A i, j \in 1..Cardinality(D) : p[i] = p[j] => i = j }

\* the machine between two calls
Between(m) == [m EXCEPT !.flushed = {}, !.peak = 0]

Ran(o, t, rets) == [m |-> Between(o.m), rets |-> [rets EXCEPT ![t] = o.ret]]

\* the calls of the threads p[i], p[i+1], ... made one after the other
RECURSIVE SerialRun(_, _, _, _)
SerialRun(p, i, n, s) ==
    IF i > n THEN s
    ELSE SerialRun(p, i + 1, n, Ran(Whole(s.m, efs, threads[p[i]].call), p[i], s.rets))

Returns == {t \in Threads : threads[t].pc = "done"}

\* no thread is inside a call, and the machine and what the calls returned are
\* those of the calls made one after the other in some order
Serial ==
    \E p \in Orders(Returns) :
        SerialRun(p, 1, Cardinality(Returns),
                  [m |-> Between(Start.m), rets |-> [t \in Threads |-> NoResult]])
            = [m |-> Machine, rets |-> [t \in Threads |-> threads[t].ret]]

\* the thread is between the first and the last access of a public inode call to
\* cached state
InCall(t) == threads[t].pc \in {"dup", "inode", "body", "sync", "sync_entries", "read"}

\* C15: a thread inside find, create, ls, read_at, write_at or clear holds the
\* manager's lock from before its first access to the cache until after its last
\* one, the sync included; no two threads hold it; no call panics; and whenever
\* no thread is inside a call, the volume, the cache and the values returned are
\* those of the calls made one at a time in some order
C15_Atomicity ==
    /\ fatal = "none"
    /\ \A t \in Threads : InCall(t) => threads[t].fs
    /\ \A t1, t2 \in Threads : threads[t1].fs /\ threads[t2].fs => t1 = t2
    /\ (\A t \in Threads : ~Active(t)) => Serial

\* two threads created the same new name: one got the file, the other None
C15_Witness ==
    \E t1, t2 \in Threads :
        /\ t1 # t2
        /\ threads[t1].pc = "done" /\ threads[t2].pc = "done"
        /\ threads[t1].call = ThreadCall("create", <<97, 98>>, 0, << >>)
        /\ threads[t2].call = threads[t1].call
        /\ threads[t1].ret.found /\ ~threads[t2].ret.found
        /\ Serial

\* C16: a thread that asks for the manager's lock holds no lock; a thread that
\* holds the cache manager's lock or an entry's lock holds the manager's lock;
\* and while some thread is inside a call, some thread inside a call can take
\* its next step
C16_NoDeadlock ==
    /\ \A t \in Threads :
          threads[t].pc \in {"lock_fs", "root1", "root2"} =>
              ~threads[t].fs /\ ~threads[t].manager /\ threads[t].entries = {}
    /\ \A t \in Threads :
          (threads[t].manager \/ threads[t].entries # {}) => threads[t].fs
    /\ (\E t \in Threads : Active(t)) => \E t \in Threads : Active(t) /\ ~Blocked(t)

\* one thread syncs the cache under the cache manager's lock, free to go on,
\* while another waits for the manager's lock
C16_Witness ==
    \E t1, t2 \in Threads :
        /\ threads[t1].pc = "sync_entries" /\ threads[t1].fs /\ threads[t1].manager
        /\ threads[t2].pc \in {"lock_fs", "root2"} /\ Blocked(t2)
        /\ ~Blocked(t1)

----------------------------------------------------------------------------
(* DiskInode::increase_size alone: one inode of a device that is large enough
   for the largest file, grown in steps with block ids that were never used *)

\* calls of increase_size made on the inode
MaxGrowCalls == 2

\* the inode that grows
GrowInode == [block_id |-> 0, block_offset |-> 0]

\* the inode's block and every block of the largest file
GrowBlocks == 1 + total_blocks(INDIRECT2_BOUND * BLOCK_SZ)

\* numbers of data blocks around the ends of the direct slots, of the indirect1
\* block, of the first two second-level index blocks and of the whole map
GrowLevels ==
    { 0, 1, INODE_DIRECT_COUNT, INODE_DIRECT_COUNT + 1, INODE_DIRECT_COUNT + 2,
      INDIRECT1_BOUND - 1, INDIRECT1_BOUND, INDIRECT1_BOUND + 1, INDIRECT1_BOUND + 2,
      INDIRECT1_BOUND + INODE_INDIRECT1_COUNT - 1,
      INDIRECT1_BOUND + INODE_INDIRECT1_COUNT,
      INDIRECT1_BOUND + INODE_INDIRECT1_COUNT + 1,
      INDIRECT1_BOUND + 2 * INODE_INDIRECT1_COUNT,
      INDIRECT1_BOUND + 2 * INODE_INDIRECT1_COUNT + 1,
      INDIRECT2_BOUND - 1, INDIRECT2_BOUND }

\* sizes in bytes with those numbers of data blocks, whole blocks and not, and a
\* size inside the first block
GrowSizes == {1} \cup { d * BLOCK_SZ - (d % 2) : d \in GrowLevels }

\* n block ids that follow the used ones the inode's map holds
FreshBlocks(used, n) == [i \in 1..n |-> used + i]

InitGrow ==
    /\ queue = InitFile(Blank(GrowBlocks, 0), GrowInode).queue
    /\ dev = InitFile(Blank(GrowBlocks, 0), GrowInode).dev
    /\ fatal = InitFile(Blank(GrowBlocks, 0), GrowInode).fatal
    /\ written = InitFile(Blank(GrowBlocks, 0), GrowInode).written
    /\ flushed = {}
    /\ peak = 0
    /\ efs = NoFs
    /\ handles = {GrowInode}
    /\ created = << >>
    /\ last = NoCall
    /\ prev = NoCall
    /\ calls = NoCalls
    /\ bitmap = NoFs.data_bitmap
    /\ held = {}
    /\ shared = {}
    /\ images = << >>
    /\ threads = << >>

GrowDone(size, new_size, new_blocks, m) ==
    /\ Commit(m)
    /\ last' = [Call("increase_size", GrowInode, << >>, new_size, new_blocks) EXCEPT
                   !.ok = Ok(m), !.size_before = size]

\* the list that blocks_num_needed(new_size) asks for, and increase_size on it,
\* inside a modify closure on the inode's block
GrowBy(size, new_size, blocks_needed) ==
    GrowDone(size, new_size, FreshBlocks(total_blocks(size), blocks_needed.v),
             DiskInode_increase_size(blocks_needed.m, GrowInode, new_size,
                                     FreshBlocks(total_blocks(size), blocks_needed.v),
                                     Hold(NoCtx, GrowInode.block_id)))

Grow(new_size) ==
    /\ fatal = "none"
    /\ calls.updates < MaxGrowCalls
    /\ new_size >= ViewSize(GrowInode)
    /\ calls' = [calls EXCEPT !.updates = @ + 1]
    /\ GrowBy(ViewSize(GrowInode), new_size,
              blocks_num_needed(modify_disk_inode(Machine, GrowInode, NoCtx),
                                GrowInode, new_size))
    /\ prev' = last
    /\ UNCHANGED <<efs, handles, created, bitmap, held, shared, images, threads>>

NextGrow == \E new_size \in GrowSizes : Grow(new_size)

SpecGrow == InitGrow /\ [][NextGrow]_vars

\* the slots that are filled when data block k joins the file, in the order of
\* the claim: the index blocks that data block k is the first to need, then
\* the slot of data block k itself
SlotsOf(k) ==
    (IF k = INODE_DIRECT_COUNT THEN << <<"indirect1", 0>> >> ELSE << >>)
    \o (IF k = INDIRECT1_BOUND THEN << <<"indirect2", 0>> >> ELSE << >>)
    \o (IF k >= INDIRECT1_BOUND /\ (k - INDIRECT1_BOUND) % INODE_INDIRECT1_COUNT = 0
        THEN << <<"indirect2 slot", (k - INDIRECT1_BOUND) \div INODE_INDIRECT1_COUNT>> >>
        ELSE << >>)
    \o << IF k < INODE_DIRECT_COUNT THEN <<"direct", k>>
          ELSE IF k < INDIRECT1_BOUND THEN <<"indirect1 slot", k - INODE_DIRECT_COUNT>>
          ELSE <<"second level slot", k - INDIRECT1_BOUND>> >>

\* the slots filled when the file grows from k to n data blocks
RECURSIVE GrowOrder(_, _)
GrowOrder(k, n) ==
    IF k >= n THEN << >>
    ELSE IF n = k + 1 THEN SlotsOf(k)
    ELSE GrowOrder(k, k + (n - k) \div 2) \o GrowOrder(k + (n - k) \div 2, n)

\* C27: growth consumption order.  DiskInode.increase_size, given the
\* blocks_num_needed(new_size) block ids of its list, returns without running
\* out of them and leaves element i of the list in the i-th slot of this
\* order: the missing direct slots, the indirect1 index block if the file had
\* none, its missing data slots, the indirect2 index block if the file had
\* none, and for each second-level index block the file enters its index
\* block and then the data slots under it; the list is as long as the order,
\* so no element is left over.
C27_GrowthOrder ==
    last.op = "increase_size" =>
        /\ last.ok /\ fatal = "none"
        /\ ViewSize(last.h) = last.offset
        /\ Len(last.buf) = Len(GrowOrder(_data_blocks(last.size_before),
                                         _data_blocks(last.offset)))
        /\ \A i \in 1..Len(last.buf) :
              GrowOrder(_data_blocks(last.size_before), _data_blocks(last.offset))[i]
                  \o <<last.buf[i]>> \in MapSlots(last.h)

\* a file whose map ended inside the indirect1 block grew into the second of
\* the second-level index blocks: its list filled the rest of the indirect1
\* block, then named the indirect2 block and both second-level index blocks
C27_Witness ==
    /\ last.op = "increase_size" /\ last.ok
    /\ _data_blocks(last.size_before) > INODE_DIRECT_COUNT
    /\ _data_blocks(last.size_before) < INDIRECT1_BOUND
    /\ _data_blocks(last.offset) > INDIRECT1_BOUND + INODE_INDIRECT1_COUNT
    /\ Len(last.buf) = _data_blocks(last.offset) - _data_blocks(last.size_before) + 3
    /\ <<"indirect2", 0,
         last.buf[INDIRECT1_BOUND - _data_blocks(last.size_before) + 1]>> \in MapSlots(last.h)
    /\ <<"indirect2 slot", 1,
         last.buf[INDIRECT1_BOUND - _data_blocks(last.size_before) + 3
                  + INODE_INDIRECT1_COUNT]>> \in MapSlots(last.h)

----------------------------------------------------------------------------
(* Two files of one volume that are written and cleared in turn, so that the
   blocks one of them gave back are handed to the other *)

\* the volume after the format of a device that held the byte fill
ReuseFormat(fill) == EasyFileSystem_create(Blank(VolumeBlocks, fill), VolumeBlocks, 1)

\* root.create("a") on the formatted volume f, then root.create("ab") on the
\* volume a that it left
ReuseFileA(f) == Inode_create(f.m, StartFs, root_inode(StartFs), <<97>>)

ReuseFileB(a) == Inode_create(a.m, StartFs, root_inode(StartFs), <<97, 98>>)

\* the (offset, length) of the writes: inside the first block, into the indirect1
\* range, and behind the second block of the indirect1 range
ReuseWrites ==
    { <<0, 3>>, <<0, INODE_DIRECT_COUNT * BLOCK_SZ + 5>>,
      <<(INODE_DIRECT_COUNT + 1) * BLOCK_SZ + 1, 3>> }

\* the volume on which a and b are the results of the two creates
InitFiles(a, b) ==
    /\ queue = b.m.queue
    /\ dev = b.m.dev
    /\ fatal = b.m.fatal
    /\ written = b.m.written
    /\ handles = {a.h, b.h}
    /\ created = << [name |-> <<97>>, h |-> a.h, inode_id |-> a.inode_id],
                    [name |-> <<97, 98>>, h |-> b.h, inode_id |-> b.inode_id] >>

InitReuse ==
    /\ \E fill \in DeviceFill :
          \E f \in {ReuseFormat(fill)} :
              \E a \in {ReuseFileA(f)} :
                  \E b \in {ReuseFileB(a)} : InitFiles(a, b)
    /\ flushed = {}
    /\ peak = 0
    /\ efs = StartFs
    /\ last = NoCall
    /\ prev = NoCall
    /\ calls = NoCalls
    /\ bitmap = NoFs.data_bitmap
    /\ held = {}
    /\ shared = {}
    /\ images = << >>
    /\ threads = << >>

NextReuse ==
    \/ \E h \in handles, rq \in ReuseWrites, seed \in Seeds :
           WriteAt(h, rq[1], Payload(rq[2], seed))
    \/ \E h \in handles : Clear(h)

SpecReuse == InitReuse /\ [][NextReuse]_vars

\* write_at returned, and it was called with an offset behind the end of the file
WroteBehindEnd == last.op = "write_at" /\ last.ok /\ last.size_before < last.offset

\* the blocks of the file at h that hold bytes of [from, to)
BlocksOf(h, from, to) ==
    { ViewBlockId(h, k) : k \in (from \div BLOCK_SZ)..((to - 1) \div BLOCK_SZ) }

\* C29: zero-filled growth.  After write_at(offset, buf) on a file of size
\* s < offset every byte of the file in the gap [s, offset) reads as 0, also
\* when the blocks the file grew by were used by, and freed from, another file.
C29_ZeroFilledGrowth ==
    WroteBehindEnd =>
        \A i \in (last.size_before + 1)..last.offset : ViewFile(last.h)[i] = 0

\* a file was cleared that had data behind an indirect1 block, and the next
\* call wrote behind the end of the other file: a block of the gap was the
\* index block of the cleared file and another one held its data, and the gap
\* reads as 0
C29_Witness ==
    /\ WroteBehindEnd
    /\ prev.op = "clear" /\ prev.ok /\ prev.h # last.h
    /\ prev.size_before > INODE_DIRECT_COUNT * BLOCK_SZ
    /\ Len(prev.out) = total_blocks(prev.size_before)
    /\ last.size_before > 0
    /\ \E i, j \in 1..Len(prev.out) :
          /\ i # j
          /\ {prev.out[i], prev.out[j]}
                 \subseteq BlocksOf(last.h, last.size_before, last.offset)
    /\ \A i \in (last.size_before + 1)..last.offset : ViewFile(last.h)[i] = 0

====
